---- MODULE Spec2Model ----
(***************************************************************************)
(* Speech-output orchestration of the accessibility widget:                *)
(*   src/tts.js                  TTSManager (primary backend)              *)
(*   src/accessibility-plugin.js speakText / speakWithFallback /           *)
(*                               stopSpeaking / word highlighting          *)
(* The host's speechSynthesis object is modelled as a queue of utterances  *)
(* with asynchronous start / end / error notifications; an utterance       *)
(* removed by cancel() may still deliver one late end or error event.      *)
(* Every handler of the program is a function from state record to state   *)
(* record; an action applies one handler atomically (the page is           *)
(* single-threaded, promise reactions run in the same task as the event    *)
(* that settles the promise).                                              *)
(***************************************************************************)
EXTENDS Integers, Sequences, FiniteSets, TLC

VARIABLES
    \* ---- host environment (window.speechSynthesis) ----
    hostSynth,            \* 'speechSynthesis' in window
    bVoices,              \* what speechSynthesis.getVoices() returns now
    queue,                \* utterances queued in the backend, head is playing
    started,              \* the head of the queue has fired its start event
    late,                 \* cancelled utterances whose final event is still to come
    paused,               \* speechSynthesis.paused
    windowTtsManager,     \* window.ttsManager is defined (tts.js has run)
    \* ---- TTSManager (tts.js) ----
    mSynthesis,           \* this.synthesis !== null
    mAvailableVoices,     \* this.availableVoices
    mCurrentLanguage,     \* this.currentLanguage
    mCurrentVoice,        \* this.currentVoice
    mIsSpeaking,          \* this.isSpeaking
    mCurrentUtterance,    \* this.currentUtterance
    mRate,                \* this.rate   (tenths: 10 is 1.0)
    mPitch,               \* this.pitch  (tenths)
    mVolume,              \* this.volume (tenths)
    \* ---- plugin (accessibility-plugin.js) ----
    ttsManager,           \* ttsManager !== null
    speechSynthesis,      \* speechSynthesis !== null
    currentState,         \* currentState (the TTS settings of it)
    isSpeaking,           \* isSpeaking
    currentUtterance,     \* currentUtterance
    availableVoices,      \* availableVoices
    currentTTSLanguage,   \* currentTTSLanguage
    ttsWords,             \* ttsWords
    ttsCurrentWordIndex,  \* ttsCurrentWordIndex
    ttsHighlightElements, \* ttsHighlightElements
    dom,                  \* wrapper spans attached to the document
    active,               \* word spans carrying accessibility-tts-word-active
    \* ---- timers ----
    waitTimers,           \* pending 100 ms voice-wait timers of speakText
    hlTimers,             \* live highlight intervals, counted per speak() call that set them
    hlInterval,           \* per speak() call: delay of the interval it set last (microseconds)
    retryTimers,          \* pending 1000 ms retries of the plugin's loadVoices
    startupTimers,        \* pending timers of the construction, counted per kind
    voicesChangedDue,     \* the host's list changed, voiceschanged is not yet dispatched
    \* ---- observation of the run ----
    requests,             \* the speak() calls made so far (text, words of the source element)
    fbCalls,              \* per speak() call: utterances issued by speakWithFallback
    primary,              \* per speak() call: fate of the TTSManager utterance, and
                          \* "errored" once the fallback utterance failed after it
    fresh,                \* the speak() call no callback has followed yet (0: none)
    stoppedEarly          \* speak() calls stopped before any callback

vars == << hostSynth, bVoices, queue, started, late, paused, windowTtsManager,
           mSynthesis, mAvailableVoices, mCurrentLanguage, mCurrentVoice,
           mIsSpeaking, mCurrentUtterance, mRate, mPitch, mVolume,
           ttsManager, speechSynthesis, currentState, isSpeaking, currentUtterance,
           availableVoices, currentTTSLanguage, ttsWords, ttsCurrentWordIndex, ttsHighlightElements,
           dom, active, waitTimers, hlTimers, hlInterval, retryTimers,
           startupTimers, voicesChangedDue,
           requests, fbCalls, primary, fresh, stoppedEarly >>

----------------------------------------------------------------------------
(* Bounds *)

MaxSpeaks == 2      \* speak() calls with a valid text in one run
MaxWords == 1       \* word spans a source element yields
MaxBareSpeaks == 1  \* of these calls, those made while no voice is loaded

Sids == 1..MaxSpeaks

----------------------------------------------------------------------------
(* Static configuration *)

\* A locale tag "xx-YY" is the pair <<"xx", "YY">>.
TTS_LANGUAGES ==
    [ en |-> [code |-> <<"en","US">>,
              voices |-> << <<"en","US">>, <<"en","GB">>, <<"en","AU">>, <<"en","CA">> >>,
              fallback |-> <<"en","US">>],
      es |-> [code |-> <<"es","ES">>,
              voices |-> << <<"es","ES">>, <<"es","MX">>, <<"es","AR">>, <<"es","CO">> >>,
              fallback |-> <<"es","ES">>],
      de |-> [code |-> <<"de","DE">>,
              voices |-> << <<"de","DE">>, <<"de","AT">>, <<"de","CH">> >>,
              fallback |-> <<"de","DE">>],
      fr |-> [code |-> <<"fr","FR">>,
              voices |-> << <<"fr","FR">>, <<"fr","CA">>, <<"fr","BE">>, <<"fr","CH">> >>,
              fallback |-> <<"fr","FR">>],
      zh |-> [code |-> <<"zh","CN">>,
              voices |-> << <<"zh","CN">>, <<"zh","TW">>, <<"zh","HK">> >>,
              fallback |-> <<"zh","CN">>],
      ko |-> [code |-> <<"ko","KR">>,
              voices |-> << <<"ko","KR">> >>,
              fallback |-> <<"ko","KR">>],
      no |-> [code |-> <<"no","NO">>,
              voices |-> << <<"no","NO">>, <<"nb","NO">>, <<"nn","NO">> >>,
              fallback |-> <<"no","NO">>] ]

\* TTS_LANGUAGES is an object literal: a lookup by a name of Object.prototype
\* finds the inherited member, which is truthy and has no code and no voices
InheritedKeys == {"constructor", "toString"}
LanguageCode(language) ==
    IF language \in DOMAIN TTS_LANGUAGES THEN TTS_LANGUAGES[language].code
    ELSE <<"", "">>

\* defaultSettings, the TTS part (rate, pitch and volume in tenths)
defaultSettings == [ttsVoice |-> << >>, ttsLanguage |-> "en",
                    ttsRate |-> 10, ttsPitch |-> 10, ttsVolume |-> 10]

\* The timers of the construction, none pending: the manager's 500 ms reload,
\* the 500 ms reload of initTTS, the reloads and the dropdown updates of
\* createWidget, and the 1000 ms retries of updateVoiceOptions
NoStartupTimers == [mgr |-> 0, init |-> 0, loads |-> 0, options |-> 0, optionRetries |-> 0,
                    check |-> 0, attempts |-> 0, poll |-> 0]

\* A voice name or URI is the sequence of its characters; << >> is no name.
NoVoice == [name |-> << >>, voiceURI |-> << >>, lang |-> <<"", "">>]
NoUtterance == [sid |-> 0, via |-> "none", voice |-> NoVoice,
                lang |-> <<"", "">>, rate |-> 0, pitch |-> 0, volume |-> 0]

\* The voices the host reports once its list is populated.
Catalog == << [name |-> <<"A","m">>, voiceURI |-> <<"u","1">>, lang |-> <<"fr","FR">>],
              [name |-> <<"D","a">>, voiceURI |-> <<"u","2">>, lang |-> <<"en","GB">>],
              [name |-> <<"S","a","m">>, voiceURI |-> <<"u","3">>, lang |-> <<"en","US">>] >>

\* A text is the sequence of its space-separated tokens; " " is a token of
\* white space only.  IsBlank is  !text || text.trim() === ''
Texts == { << >>, <<" ">>, <<"hello", "world">> }
IsBlank(text) == \A i \in 1..Len(text) : text[i] = " "

Range(s) == {s[i] : i \in 1..Len(s)}

SetMin(S) == CHOOSE x \in S : \A y \in S : x <= y
Max2(a, b) == IF a >= b THEN a ELSE b
Min2(a, b) == IF a <= b THEN a ELSE b

\* Array.prototype.find: the first element satisfying P, or none
Find(list, P(_), none) ==
    LET hits == {i \in 1..Len(list) : P(list[i])}
    IN  IF hits = {} THEN none ELSE list[SetMin(hits)]

\* A startsWith that takes an empty locale tag for a match
StartsWithOrEmpty(lang, prefix) == lang[1] = prefix \/ lang[1] = ""

\* v.lang.startsWith(prefix) for a two-letter prefix
StartsWith(lang, prefix) == lang[1] = prefix

\* String.prototype.toLowerCase, character by character
LowerChar(c) ==
    CASE c = "A" -> "a" [] c = "D" -> "d" [] c = "M" -> "m" [] c = "S" -> "s"
      [] c = "U" -> "u" [] c = "N" -> "n" [] c = "X" -> "x" [] OTHER -> c
ToLowerCase(str) == [i \in 1..Len(str) |-> LowerChar(str[i])]

\* String.prototype.includes
Includes(str, sub) ==
    \E k \in 0..(Len(str) - Len(sub)) :
        \A i \in 1..Len(sub) : str[k + i] = sub[i]

----------------------------------------------------------------------------
(* The state as one record, so that handlers compose as the code calls them. *)
(* Some fields are not state but what a handler run lets its caller see:     *)
(* ret, what it returns (the promise of ttsManager.speak, an exception, an   *)
(* alert), cancels, the speechSynthesis.cancel() calls it made, settled, how *)
(* it settled the promise of ttsManager.speak (resolve or reject),           *)
(* voiceChanges and languageChanges, the onVoiceChange and onLanguageChange  *)
(* callbacks it made, pauses and resumes,                                    *)
(* the speechSynthesis.pause() and resume() calls it made, and panel,        *)
(* whether the settings panel is built (it is once construction is over).    *)

St == [ hostSynth |-> hostSynth, bVoices |-> bVoices, queue |-> queue,
        started |-> started, late |-> late, paused |-> paused,
        windowTtsManager |-> windowTtsManager,
        mSynthesis |-> mSynthesis, mAvailableVoices |-> mAvailableVoices,
        mCurrentLanguage |-> mCurrentLanguage, mCurrentVoice |-> mCurrentVoice,
        mIsSpeaking |-> mIsSpeaking, mCurrentUtterance |-> mCurrentUtterance,
        mRate |-> mRate, mPitch |-> mPitch, mVolume |-> mVolume,
        ttsManager |-> ttsManager, speechSynthesis |-> speechSynthesis,
        currentState |-> currentState, isSpeaking |-> isSpeaking,
        currentUtterance |-> currentUtterance, availableVoices |-> availableVoices,
        currentTTSLanguage |-> currentTTSLanguage,
        ttsWords |-> ttsWords, ttsCurrentWordIndex |-> ttsCurrentWordIndex,
        ttsHighlightElements |-> ttsHighlightElements, dom |-> dom, active |-> active,
        waitTimers |-> waitTimers, hlTimers |-> hlTimers, hlInterval |-> hlInterval,
        retryTimers |-> retryTimers,
        startupTimers |-> startupTimers, voicesChangedDue |-> voicesChangedDue,
        requests |-> requests, ret |-> "none", cancels |-> 0, settled |-> "none",
        voiceChanges |-> 0, languageChanges |-> 0, pauses |-> 0, resumes |-> 0,
        panel |-> TRUE,
        fbCalls |-> fbCalls, primary |-> primary, fresh |-> fresh,
        stoppedEarly |-> stoppedEarly ]

Apply(s) ==
    \E t \in {s} :
        /\ hostSynth' = t.hostSynth /\ bVoices' = t.bVoices /\ queue' = t.queue
        /\ started' = t.started /\ late' = t.late /\ paused' = t.paused
        /\ windowTtsManager' = t.windowTtsManager
        /\ mSynthesis' = t.mSynthesis /\ mAvailableVoices' = t.mAvailableVoices
        /\ mCurrentLanguage' = t.mCurrentLanguage /\ mCurrentVoice' = t.mCurrentVoice
        /\ mIsSpeaking' = t.mIsSpeaking /\ mCurrentUtterance' = t.mCurrentUtterance
        /\ mRate' = t.mRate /\ mPitch' = t.mPitch /\ mVolume' = t.mVolume
        /\ ttsManager' = t.ttsManager /\ speechSynthesis' = t.speechSynthesis
        /\ currentState' = t.currentState /\ isSpeaking' = t.isSpeaking
        /\ currentUtterance' = t.currentUtterance /\ availableVoices' = t.availableVoices
        /\ currentTTSLanguage' = t.currentTTSLanguage
        /\ ttsWords' = t.ttsWords /\ ttsCurrentWordIndex' = t.ttsCurrentWordIndex
        /\ ttsHighlightElements' = t.ttsHighlightElements /\ dom' = t.dom
        /\ active' = t.active
        /\ waitTimers' = t.waitTimers /\ hlTimers' = t.hlTimers
        /\ hlInterval' = t.hlInterval
        /\ retryTimers' = t.retryTimers
        /\ startupTimers' = t.startupTimers /\ voicesChangedDue' = t.voicesChangedDue
        /\ requests' = t.requests
        /\ fbCalls' = t.fbCalls /\ primary' = t.primary /\ fresh' = t.fresh
        /\ stoppedEarly' = t.stoppedEarly

\* The same, for the initial state
Start(s) ==
    /\ hostSynth = s.hostSynth /\ bVoices = s.bVoices /\ queue = s.queue
    /\ started = s.started /\ late = s.late /\ paused = s.paused
    /\ windowTtsManager = s.windowTtsManager
    /\ mSynthesis = s.mSynthesis /\ mAvailableVoices = s.mAvailableVoices
    /\ mCurrentLanguage = s.mCurrentLanguage /\ mCurrentVoice = s.mCurrentVoice
    /\ mIsSpeaking = s.mIsSpeaking /\ mCurrentUtterance = s.mCurrentUtterance
    /\ mRate = s.mRate /\ mPitch = s.mPitch /\ mVolume = s.mVolume
    /\ ttsManager = s.ttsManager /\ speechSynthesis = s.speechSynthesis
    /\ currentState = s.currentState /\ isSpeaking = s.isSpeaking
    /\ currentUtterance = s.currentUtterance /\ availableVoices = s.availableVoices
    /\ currentTTSLanguage = s.currentTTSLanguage
    /\ ttsWords = s.ttsWords /\ ttsCurrentWordIndex = s.ttsCurrentWordIndex
    /\ ttsHighlightElements = s.ttsHighlightElements /\ dom = s.dom
    /\ active = s.active
    /\ waitTimers = s.waitTimers /\ hlTimers = s.hlTimers
    /\ hlInterval = s.hlInterval
    /\ retryTimers = s.retryTimers
    /\ startupTimers = s.startupTimers /\ voicesChangedDue = s.voicesChangedDue
    /\ requests = s.requests
    /\ fbCalls = s.fbCalls /\ primary = s.primary /\ fresh = s.fresh
    /\ stoppedEarly = s.stoppedEarly

\* A step of a handler runs on the state v the steps before it left (v is
\* evaluated once, before the step).
With(v, Body(_)) == Body(CHOOSE t \in {v} : TRUE)

\* Whatever runs after a speak() call ends the moment "right after speak()".
Enter(s) == [s EXCEPT !.fresh = 0]

----------------------------------------------------------------------------
(* Host speech backend *)

\* speechSynthesis.cancel(): the queue is emptied; the removed utterances get
\* their final event (end, or error 'canceled'/'interrupted') asynchronously.
SynthCancel(s) ==
    [s EXCEPT !.late = @ \cup Range(s.queue),
              !.queue = << >>,
              !.started = FALSE,
              !.cancels = @ + 1]

\* speechSynthesis.speak(utterance): the utterance joins the queue.
SynthSpeak(s, u) ==
    [s EXCEPT !.queue = Append(@, u)]

\* speechSynthesis.pause() and resume(): the backend plays nothing while it
\* is paused; cancel() leaves the paused state as it is.
SynthPause(s) == [s EXCEPT !.paused = TRUE, !.pauses = @ + 1]
SynthResume(s) == [s EXCEPT !.paused = FALSE, !.resumes = @ + 1]

----------------------------------------------------------------------------
(* TTSManager, src/tts.js *)

\* isAvailable()
MgrIsAvailable(s) == s.hostSynth /\ s.mSynthesis

\* detectLanguage(text): script ranges first, then the keyword patterns in
\* the order of LANGUAGE_PATTERNS.  The patterns are not global, so
\* text.match(pattern) is null or [match, group]: its length is 0 or 2.
KeywordLangs == <<"en", "es", "de", "fr", "no">>
Keywords ==
    [ en |-> {"the","and","or","but","in","on","at","to","for","of","with","by"},
      es |-> {"el","la","los","las","y","o","pero","en","de","con","por","para"},
      de |-> {"der","die","das","und","oder","aber","in","von","mit","f\"ur","zu"},
      fr |-> {"le","la","les","et","ou","mais","dans","de","avec","pour","par"},
      no |-> {"og","eller","men","i","av","med","for","til"} ]
IsChinese(tok) == tok \in {"zh1", "zh2"}
IsKorean(tok) == tok \in {"ko1", "ko2"}
MatchLength(text, lang) ==
    IF \E i \in 1..Len(text) : text[i] \in Keywords[lang] THEN 2 ELSE 0
RECURSIVE DetectLoop(_, _, _, _)
DetectLoop(text, k, maxMatches, detectedLang) ==
    IF k > Len(KeywordLangs) THEN detectedLang
    ELSE LET matches == MatchLength(text, KeywordLangs[k])
         IN  IF matches > maxMatches
             THEN DetectLoop(text, k + 1, matches, KeywordLangs[k])
             ELSE DetectLoop(text, k + 1, maxMatches, detectedLang)
\* A detectLanguage that tries the keyword patterns before the script ranges
detectLanguageKeywordsFirst(text) ==
    IF IsBlank(text) THEN "en"
    ELSE IF DetectLoop(text, 1, 0, "") # "" THEN DetectLoop(text, 1, 0, "en")
    ELSE IF \E i \in 1..Len(text) : IsChinese(text[i]) THEN "zh"
    ELSE IF \E i \in 1..Len(text) : IsKorean(text[i]) THEN "ko"
    ELSE "en"
\* A detectLanguage whose loop starts without a default language
detectLanguageNoDefault(text) ==
    IF IsBlank(text) THEN "en"
    ELSE IF \E i \in 1..Len(text) : IsChinese(text[i]) THEN "zh"
    ELSE IF \E i \in 1..Len(text) : IsKorean(text[i]) THEN "ko"
    ELSE DetectLoop(text, 1, 0, "")
detectLanguage(text) ==
    IF IsBlank(text) THEN "en"
    ELSE IF \E i \in 1..Len(text) : IsChinese(text[i]) THEN "zh"
    ELSE IF \E i \in 1..Len(text) : IsKorean(text[i]) THEN "ko"
    ELSE DetectLoop(text, 1, 0, "en")

\* selectBestVoice(language); language "" is null
RECURSIVE VariantLoop(_, _, _)
VariantLoop(voices, variants, k) ==
    IF k > Len(variants) THEN NoVoice
    ELSE LET voiceCode == variants[k]
             Hit(v) == v.lang = voiceCode \/ StartsWith(v.lang, voiceCode[1])
             bestVoice == Find(voices, Hit, NoVoice)
         IN  IF bestVoice # NoVoice THEN bestVoice
             ELSE VariantLoop(voices, variants, k + 1)
\* A selectBestVoice without the final fallback to the first voice
MgrSelectBestVoiceNoDefault(s, language) ==
    IF ~s.mSynthesis \/ Len(s.mAvailableVoices) = 0 THEN s
    ELSE LET lang == IF language # "" THEN language ELSE s.mCurrentLanguage
         IN  IF lang \notin DOMAIN TTS_LANGUAGES
             THEN (IF lang \in InheritedKeys THEN [s EXCEPT !.ret = "throw"] ELSE s)
             ELSE LET langConfig == TTS_LANGUAGES[lang]
                      exact == VariantLoop(s.mAvailableVoices, langConfig.voices, 1)
                      Prefixed(v) == StartsWith(v.lang, langConfig.code[1])
                      byPrefix == IF exact # NoVoice THEN exact
                                  ELSE Find(s.mAvailableVoices, Prefixed, NoVoice)
                  IN  [s EXCEPT !.mCurrentVoice = byPrefix]
\* selectBestVoice(language); language "" is null.  For a name that
\* TTS_LANGUAGES inherits, langConfig is truthy and langConfig.voices is
\* undefined: the for ... of throws.
MgrSelectBestVoice(s, language) ==
    IF ~s.mSynthesis \/ Len(s.mAvailableVoices) = 0 THEN s
    ELSE LET lang == IF language # "" THEN language ELSE s.mCurrentLanguage
         IN  IF lang \notin DOMAIN TTS_LANGUAGES
             THEN (IF lang \in InheritedKeys THEN [s EXCEPT !.ret = "throw"] ELSE s)
             ELSE LET langConfig == TTS_LANGUAGES[lang]
                      exact == VariantLoop(s.mAvailableVoices, langConfig.voices, 1)
                      Prefixed(v) == StartsWith(v.lang, langConfig.code[1])
                      byPrefix == IF exact # NoVoice THEN exact
                                  ELSE Find(s.mAvailableVoices, Prefixed, NoVoice)
                      bestVoice == IF byPrefix # NoVoice THEN byPrefix
                                   ELSE s.mAvailableVoices[1]
                  IN  [s EXCEPT !.mCurrentVoice = bestVoice]

\* loadVoices()
MgrLoadVoices(s) ==
    IF s.mSynthesis
    THEN LET voices == s.bVoices
         IN  IF Len(voices) > 0
             THEN MgrSelectBestVoice([s EXCEPT !.mAvailableVoices = voices], "")
             ELSE s
    ELSE s

\* setLanguage(language), with the plugin's onLanguageChange callback
\* (initTTS) when the plugin has bound the manager; ret is what it returns,
\* or "throw".  !TTS_LANGUAGES[language] is false for the configured codes
\* and for the names the object inherits.
MgrSetLanguageOk(language) == language \in DOMAIN TTS_LANGUAGES \cup InheritedKeys
MgrSetLanguage(s, language) ==
    IF ~MgrSetLanguageOk(language) THEN [s EXCEPT !.ret = "false"]
    ELSE With(MgrSelectBestVoice([s EXCEPT !.mCurrentLanguage = language], language),
              LAMBDA s1 :
                IF s1.ret = "throw" THEN s1
                ELSE IF s1.ttsManager
                THEN [s1 EXCEPT !.currentTTSLanguage = language,
                                !.languageChanges = @ + 1, !.ret = "true"]
                ELSE [s1 EXCEPT !.ret = "true"])

\* updateVoiceDropdown() of the plugin: nothing before createWidget has built
\* the panel; then the plugin takes over the list of the manager, else keeps
\* its own, else asks the host
updateVoiceDropdown(s) ==
    IF ~s.panel THEN s
    ELSE IF s.ttsManager /\ Len(s.mAvailableVoices) > 0
    THEN [s EXCEPT !.availableVoices = s.mAvailableVoices]
    ELSE IF Len(s.availableVoices) > 0 THEN s
    ELSE IF s.speechSynthesis /\ Len(s.bVoices) > 0
    THEN [s EXCEPT !.availableVoices = s.bVoices]
    ELSE s

\* this.onVoiceChange(...) where the manager calls it: the callback initTTS
\* binds, when the plugin has bound the manager
onVoiceChange(s) ==
    IF s.ttsManager THEN [updateVoiceDropdown(s) EXCEPT !.voiceChanges = @ + 1] ELSE s

\* The onvoiceschanged handler init() installs: loadVoices(), then the
\* onVoiceChange callback
MgrOnVoicesChanged(s) == onVoiceChange(MgrLoadVoices(s))

\* The callback of the 500 ms timer init() sets: loadVoices()
MgrInitTimeout(s) == MgrLoadVoices([s EXCEPT !.startupTimers.mgr = 0])

\* setVoice(voiceName): the voice found, or NoVoice when it returns false
MgrFindVoice(s, voiceName) ==
    LET Hit(v) == \/ v.name = voiceName
                  \/ v.voiceURI = voiceName
                  \/ Includes(ToLowerCase(v.name), ToLowerCase(voiceName))
    IN  Find(s.mAvailableVoices, Hit, NoVoice)
MgrSetVoice(s, voiceName) ==
    LET voice == MgrFindVoice(s, voiceName)
    IN  IF voice # NoVoice THEN onVoiceChange([s EXCEPT !.mCurrentVoice = voice]) ELSE s

\* getAvailableVoicesForLanguage(language)
MgrVoicesForLanguage(s, language) ==
    IF language \notin DOMAIN TTS_LANGUAGES THEN << >>
    ELSE LET langConfig == TTS_LANGUAGES[language]
             Some(voice) == \E k \in 1..Len(langConfig.voices) :
                                \/ voice.lang = langConfig.voices[k]
                                \/ StartsWith(voice.lang, langConfig.voices[k][1])
         IN  SelectSeq(s.mAvailableVoices, Some)

\* setRate / setPitch / setVolume
MgrSetRate(s, rate) == [s EXCEPT !.mRate = Max2(5, Min2(20, rate))]
MgrSetPitch(s, pitch) == [s EXCEPT !.mPitch = Max2(0, Min2(20, pitch))]
MgrSetVolume(s, volume) == [s EXCEPT !.mVolume = Max2(0, Min2(10, volume))]

\* A stop() that keeps the record of the utterance
MgrStopKeepsUtterance(s) ==
    IF s.mSynthesis /\ s.mIsSpeaking
    THEN [SynthCancel(s) EXCEPT !.mIsSpeaking = FALSE]
    ELSE s

\* A stop() that cancels whether or not the manager is speaking
MgrStopAlways(s) ==
    IF s.mSynthesis
    THEN [SynthCancel(s) EXCEPT !.mIsSpeaking = FALSE,
                                !.mCurrentUtterance = NoUtterance]
    ELSE s

\* stop()
MgrStop(s) ==
    IF s.mSynthesis /\ s.mIsSpeaking
    THEN [SynthCancel(s) EXCEPT !.mIsSpeaking = FALSE,
                                !.mCurrentUtterance = NoUtterance]
    ELSE s

\* pause() and resume()
MgrPause(s) == IF s.mSynthesis /\ s.mIsSpeaking THEN SynthPause(s) ELSE s
MgrResume(s) == IF s.mSynthesis /\ s.mIsSpeaking THEN SynthResume(s) ELSE s

\* A speak() that gives up when it has no voice for its utterance
MgrSpeakNeedsVoice(s, text, language, options, sid, via) ==
    LET detectedLang == IF language # "" THEN language ELSE detectLanguage(text)
    IN
    With(MgrStop(s), LAMBDA s1 :
    With(IF detectedLang # s1.mCurrentLanguage
         THEN MgrSetLanguage(s1, detectedLang) ELSE s1, LAMBDA s2 :
    IF s2.ret = "throw" \/ ~MgrSetLanguageOk(detectedLang)
    THEN [s2 EXCEPT !.ret = "throw"]   \* TTS_LANGUAGES[detectedLang].code
    ELSE
    With(IF Len(s2.mAvailableVoices) = 0 THEN MgrLoadVoices(s2) ELSE s2, LAMBDA s3 :
    IF s3.ret = "throw" THEN s3 ELSE
    With(IF s3.mCurrentVoice # NoVoice THEN s3
         ELSE MgrSelectBestVoice(s3, detectedLang), LAMBDA s4 :
    IF s4.ret = "throw" THEN s4 ELSE
    IF s4.mCurrentVoice = NoVoice THEN [s4 EXCEPT !.ret = "throw"]
    ELSE
    With([sid |-> sid, via |-> via, voice |-> s4.mCurrentVoice,
          lang |-> LanguageCode(detectedLang),
          rate |-> IF options.rate # 0 THEN options.rate ELSE s4.mRate,
          pitch |-> IF options.pitch # 0 THEN options.pitch ELSE s4.mPitch,
          volume |-> IF options.volume # 0 THEN options.volume ELSE s4.mVolume],
         LAMBDA utterance :
    SynthSpeak([s4 EXCEPT !.mCurrentUtterance = utterance,
                          !.mIsSpeaking = TRUE,
                          !.primary[sid] = "pending",
                          !.ret = "promise"], utterance))))))

\* speak(text, language, options) for the speak() call sid, from "Stop any
\* current speech" on; language "" is null, an option 0 is falsy.  ret tells
\* what the caller gets back.
MgrSpeakAccepted(s, text, language, options, sid, via) ==
    LET detectedLang == IF language # "" THEN language ELSE detectLanguage(text)
    IN
    With(MgrStop(s), LAMBDA s1 :
    With(IF detectedLang # s1.mCurrentLanguage
         THEN MgrSetLanguage(s1, detectedLang) ELSE s1, LAMBDA s2 :
    IF s2.ret = "throw" \/ ~MgrSetLanguageOk(detectedLang)
    THEN [s2 EXCEPT !.ret = "throw"]   \* TTS_LANGUAGES[detectedLang].code
    ELSE
    With(IF Len(s2.mAvailableVoices) = 0 THEN MgrLoadVoices(s2) ELSE s2, LAMBDA s3 :
    IF s3.ret = "throw" THEN s3 ELSE
    With(IF s3.mCurrentVoice # NoVoice THEN s3
         ELSE MgrSelectBestVoice(s3, detectedLang), LAMBDA s4 :
    IF s4.ret = "throw" THEN s4 ELSE
    With([sid |-> sid, via |-> via, voice |-> s4.mCurrentVoice,
          lang |-> LanguageCode(detectedLang),
          rate |-> IF options.rate # 0 THEN options.rate ELSE s4.mRate,
          pitch |-> IF options.pitch # 0 THEN options.pitch ELSE s4.mPitch,
          volume |-> IF options.volume # 0 THEN options.volume ELSE s4.mVolume],
         LAMBDA utterance :
    SynthSpeak([s4 EXCEPT !.mCurrentUtterance = utterance,
                          !.mIsSpeaking = TRUE,
                          !.primary[sid] = "pending",
                          !.ret = "promise"], utterance))))))

\* A speak() that stops the current speech before it validates the text
MgrSpeakStopsFirst(s, text, language, options, sid, via) ==
    IF ~s.mSynthesis
    THEN [s EXCEPT !.ret = "rejected: Speech Synthesis not available"]
    ELSE IF IsBlank(text)
    THEN [MgrStop(s) EXCEPT !.ret = "rejected: Invalid text"]
    ELSE MgrSpeakAccepted(s, text, language, options, sid, via)

\* A speak() without the guard on this.synthesis
MgrSpeakUnguarded(s, text, language, options, sid, via) ==
    IF IsBlank(text)
    THEN [s EXCEPT !.ret = "rejected: Invalid text"]
    ELSE MgrSpeakAccepted(s, text, language, options, sid, via)

\* speak(text, language, options)
MgrSpeak(s, text, language, options, sid, via) ==
    IF ~s.mSynthesis
    THEN [s EXCEPT !.ret = "rejected: Speech Synthesis not available"]
    ELSE IF IsBlank(text)
    THEN [s EXCEPT !.ret = "rejected: Invalid text"]
    ELSE MgrSpeakAccepted(s, text, language, options, sid, via)

----------------------------------------------------------------------------
(* Plugin, src/accessibility-plugin.js *)

\* The word spans setupTTSHighlighting builds for the speak() call sid; one
\* wrapper span, named by the call, holds them.
WordsOf(s, sid) == [k \in 1..s.requests[sid].words |-> [sid |-> sid, k |-> k]]

\* A clearTTSHighlights() that leaves the wrappers in the document
clearTTSHighlightsKeepsWrappers(s) ==
    [s EXCEPT !.ttsHighlightElements = << >>,
              !.ttsWords = << >>,
              !.ttsCurrentWordIndex = 0]

\* A clearTTSHighlights() that keeps the list of words and the cursor
clearTTSHighlightsKeepsWords(s) ==
    LET gone == Range(s.ttsHighlightElements)
    IN  [s EXCEPT !.dom = @ \ gone,
                  !.active = {w \in @ : w.sid \notin gone},
                  !.ttsHighlightElements = << >>]

\* clearTTSHighlights(): the wrappers leave the document (their word spans
\* with them) and the arrays are reset
clearTTSHighlights(s) ==
    LET gone == Range(s.ttsHighlightElements)
    IN  [s EXCEPT !.dom = @ \ gone,
                  !.active = {w \in @ : w.sid \notin gone},
                  !.ttsHighlightElements = << >>,
                  !.ttsWords = << >>,
                  !.ttsCurrentWordIndex = 0]

\* setupTTSHighlighting(element, text), for an element that yields words
setupTTSHighlighting(s, sid) ==
    With(clearTTSHighlights(s), LAMBDA s1 :
         [s1 EXCEPT !.ttsWords = WordsOf(s1, sid),
                    !.ttsHighlightElements = <<sid>>,
                    !.ttsCurrentWordIndex = 0,
                    !.dom = @ \cup {sid}])

\* An interval without the minimum of 50 ms
HighlightIntervalUnclamped(rate) == 10000000 \div (3 * rate)

\* The delay startTTSHighlighting computes, in microseconds, for a positive
\* rate in tenths: wordsPerSecond = (180 / 60) * rate,
\* interval = Math.max(50, 1000 / wordsPerSecond)
HighlightInterval(rate) == Max2(50000, 10000000 \div (3 * rate))

\* startTTSHighlighting(): setInterval, unless there are no words
startTTSHighlighting(s, sid) ==
    IF Len(s.ttsWords) = 0 THEN s
    ELSE [s EXCEPT !.hlTimers[sid] = @ + 1,
                   !.hlInterval[sid] = HighlightInterval(s.currentState.ttsRate)]

\* loadVoices()
loadVoices(s) ==
    IF s.speechSynthesis
    THEN LET voices == s.bVoices
         IN  IF Len(voices) > 0
             THEN updateVoiceDropdown([s EXCEPT !.availableVoices = voices])
             ELSE [s EXCEPT !.retryTimers = @ + 1]
    ELSE IF s.ttsManager /\ s.mSynthesis
    THEN With(MgrLoadVoices(s), LAMBDA s1 :
              updateVoiceDropdown([s1 EXCEPT !.availableVoices = s1.mAvailableVoices]))
    ELSE s

\* stopSpeaking()
stopSpeaking(s) ==
    IF s.ttsManager /\ MgrIsAvailable(s)
    THEN clearTTSHighlights([MgrStop(s) EXCEPT !.isSpeaking = FALSE])
    ELSE IF s.speechSynthesis /\ s.isSpeaking
    THEN clearTTSHighlights([SynthCancel(s) EXCEPT !.isSpeaking = FALSE])
    ELSE s

\* The voice speakWithFallback puts on its utterance
FallbackVoice(s, lang) ==
    LET ttsVoice == s.currentState.ttsVoice
        Named(v) == \/ v.name = ttsVoice
                    \/ v.voiceURI = ttsVoice
                    \/ Includes(ToLowerCase(v.name), ToLowerCase(ttsVoice))
        InLang(v) == v.lang # <<"", "">> /\ StartsWith(v.lang, lang[1])
        selectedVoice == Find(s.availableVoices, Named, NoVoice)
        langVoice == Find(s.availableVoices, InLang, NoVoice)
    IN  IF ttsVoice # << >> /\ Len(s.availableVoices) > 0
        THEN (IF selectedVoice # NoVoice THEN selectedVoice ELSE langVoice)
        ELSE IF Len(s.availableVoices) > 0 THEN langVoice
        ELSE NoVoice

\* speakWithFallback(text, sourceElement) for the speak() call sid, called
\* from the place `via` of the code
speakWithFallback(s, sid, via) ==
    IF ~s.speechSynthesis THEN [s EXCEPT !.ret = "alert"]
    ELSE
      LET ttsLanguage == s.currentState.ttsLanguage
          lang == IF ttsLanguage # "" /\ ttsLanguage \in DOMAIN TTS_LANGUAGES
                  THEN TTS_LANGUAGES[ttsLanguage].code
                  ELSE <<"en", "US">>
      IN
      With(loadVoices(s), LAMBDA s1 :
      With(IF Len(s1.bVoices) > 0
           THEN [s1 EXCEPT !.availableVoices = s1.bVoices] ELSE s1, LAMBDA s2 :
      With([sid |-> sid, via |-> via, voice |-> FallbackVoice(s2, lang),
            lang |-> lang,
            rate |-> s2.currentState.ttsRate,
            pitch |-> s2.currentState.ttsPitch,
            volume |-> s2.currentState.ttsVolume], LAMBDA utterance :
      With([s2 EXCEPT !.currentUtterance = utterance], LAMBDA s3 :
      With(IF s3.requests[sid].words > 0 THEN setupTTSHighlighting(s3, sid) ELSE s3,
           LAMBDA s4 :
      startTTSHighlighting([SynthSpeak(s4, utterance) EXCEPT !.isSpeaking = TRUE,
                                                             !.fbCalls[sid] = @ + 1],
                           sid))))))

\* The reactions speakText attaches to the promise of ttsManager.speak
PromiseThen(s) ==
    clearTTSHighlights([s EXCEPT !.isSpeaking = FALSE])
PromiseCatch(s, sid) ==
    speakWithFallback(clearTTSHighlights([s EXCEPT !.isSpeaking = FALSE]), sid, "catch")

\* The voice setup of speakText: the language of the settings first, then
\* the voice of the settings, and the language again when that voice is
\* not set
VoiceSetup(s) ==
    LET cs == s.currentState
    IN
    With(IF cs.ttsLanguage # "" THEN MgrSetLanguage(s, cs.ttsLanguage) ELSE s,
         LAMBDA s4 :
    IF cs.ttsVoice # << >> /\ ~IsBlank(cs.ttsVoice)
       /\ MgrFindVoice(s4, cs.ttsVoice) # NoVoice
    THEN MgrSetVoice(s4, cs.ttsVoice)
    ELSE IF cs.ttsLanguage # "" THEN MgrSetLanguage(s4, cs.ttsLanguage) ELSE s4)

\* speakText(text, sourceElement); sid names the call when the text is valid
speakText(s, text, words, sid) ==
    LET cs == s.currentState
    IN
    With(stopSpeaking(s), LAMBDA s0 :
    IF IsBlank(text) THEN s0
    ELSE
    With(clearTTSHighlights(
           [s0 EXCEPT !.requests = Append(@, [text |-> text, words |-> words,
                                              bare |-> Len(s0.mAvailableVoices) = 0]),
                      !.fresh = sid]), LAMBDA s1 :
    IF ~(s1.ttsManager /\ MgrIsAvailable(s1))
    THEN speakWithFallback(s1, sid, "direct")
    ELSE
    With(IF Len(s1.mAvailableVoices) = 0
         THEN [MgrLoadVoices(s1) EXCEPT !.waitTimers = @ \cup {sid}]
         ELSE s1, LAMBDA s2 :
    With(MgrSetVolume(MgrSetPitch(MgrSetRate(s2, cs.ttsRate), cs.ttsPitch),
                      cs.ttsVolume), LAMBDA s3 :
    With(VoiceSetup(s3), LAMBDA s5 :
    IF s5.mCurrentVoice = NoVoice /\ Len(s5.mAvailableVoices) > 0
    THEN speakWithFallback(s5, sid, "direct")
    ELSE
    With(IF words > 0 THEN setupTTSHighlighting(s5, sid) ELSE s5, LAMBDA s6 :
    With(MgrSpeak(s6, text, cs.ttsLanguage,
                  [rate |-> cs.ttsRate, pitch |-> cs.ttsPitch,
                   volume |-> cs.ttsVolume], sid, "mgr"), LAMBDA s7 :
    IF s7.ret = "throw" THEN speakWithFallback(s7, sid, "direct")
    ELSE
    With(startTTSHighlighting([s7 EXCEPT !.isSpeaking = TRUE], sid), LAMBDA s8 :
    IF s7.ret = "promise" THEN s8
    ELSE PromiseCatch(s8, sid)     \* an already rejected promise
    ))))))))

\* The 100 ms timer speakText sets when no voices were loaded
VoiceWaitTimeout(s, sid) ==
    With([s EXCEPT !.waitTimers = @ \ {sid}], LAMBDA s1 :
         IF Len(s1.mAvailableVoices) = 0 THEN speakWithFallback(s1, sid, "timer") ELSE s1)

\* The 1000 ms retry of loadVoices
LoadVoicesRetry(s) ==
    With([s EXCEPT !.retryTimers = @ - 1], LAMBDA s1 :
         IF Len(s1.bVoices) > 0
         THEN updateVoiceDropdown([s1 EXCEPT !.availableVoices = s1.bVoices]) ELSE s1)

\* getVoiceOptions(): the options come from the list of the manager, else
\* from the plugin's, else from one taken from the host (the plugin's
\* speechSynthesis is the manager's synthesis, so the fourth source is never
\* asked); without a voice the default option is the only one
HasVoiceOptions(s) ==
    \/ s.ttsManager /\ Len(s.mAvailableVoices) > 0
    \/ Len(s.availableVoices) > 0
    \/ s.speechSynthesis /\ Len(s.bVoices) > 0
getVoiceOptions(s) ==
    IF s.ttsManager /\ Len(s.mAvailableVoices) > 0 THEN s
    ELSE IF Len(s.availableVoices) > 0 THEN s
    ELSE IF s.speechSynthesis /\ Len(s.bVoices) > 0
    THEN [s EXCEPT !.availableVoices = s.bVoices]
    ELSE s

\* updateVoiceOptions() of createWidget: with no option but the default it
\* sets a 1000 ms timer that retries
updateVoiceOptions(s) ==
    IF HasVoiceOptions(s) THEN getVoiceOptions(s)
    ELSE [s EXCEPT !.startupTimers.optionRetries = @ + 1]

\* The callback of that timer: loadVoices(); updateVoiceOptions()
OptionRetry(s) ==
    updateVoiceOptions(loadVoices([s EXCEPT !.startupTimers.optionRetries = @ - 1]))

\* The callbacks of the timers createWidget sets: loadVoices (100, 500, 1000,
\* 2000 ms) and updateVoiceOptions (200, 1000, 2000 ms)
WidgetLoad(s) == loadVoices([s EXCEPT !.startupTimers.loads = @ - 1])
OptionsUpdate(s) == updateVoiceOptions([s EXCEPT !.startupTimers.options = @ - 1])

\* The callback of the 500 ms timer of initTTS
InitTimeout(s) ==
    With(MgrLoadVoices([s EXCEPT !.startupTimers.init = 0]), LAMBDA s1 :
         [s1 EXCEPT !.availableVoices = s1.mAvailableVoices])

\* speechSynthesis.onvoiceschanged as createWidget wraps it: loadVoices(),
\* updateVoiceOptions(), then the handler of the manager
OnVoicesChanged(s) == MgrOnVoicesChanged(updateVoiceOptions(loadVoices(s)))

\* A callback that goes on counting past the end of the words
HighlightTickPastEnd(s, sid) ==
    LET i == s.ttsCurrentWordIndex
        n == Len(s.ttsWords)
    IN  IF ~s.isSpeaking
        THEN [s EXCEPT !.hlTimers[sid] = @ - 1,
                       !.active = IF i > 0 /\ i <= n THEN @ \ {s.ttsWords[i]} ELSE @]
        ELSE [s EXCEPT !.active = (IF i > 2 /\ i - 2 <= n THEN @ \ {s.ttsWords[i - 2]}
                                   ELSE @)
                                      \cup (IF i < n THEN {s.ttsWords[i + 1]} ELSE {}),
                       !.ttsCurrentWordIndex = i + 1]

\* A callback that never takes the mark off the word three behind
HighlightTickKeepsMarks(s, sid) ==
    LET i == s.ttsCurrentWordIndex
        n == Len(s.ttsWords)
    IN  IF ~s.isSpeaking \/ i >= n
        THEN [s EXCEPT !.hlTimers[sid] = @ - 1,
                       !.active = IF i > 0 /\ i <= n THEN @ \ {s.ttsWords[i]} ELSE @]
        ELSE [s EXCEPT !.active = @ \cup {s.ttsWords[i + 1]},
                       !.ttsCurrentWordIndex = i + 1]

\* One run of the interval callback of a timer that the speak() call sid set
HighlightTick(s, sid) ==
    LET i == s.ttsCurrentWordIndex
        n == Len(s.ttsWords)
    IN  IF ~s.isSpeaking \/ i >= n
        THEN [s EXCEPT !.hlTimers[sid] = @ - 1,
                       !.active = IF i > 0 /\ i <= n THEN @ \ {s.ttsWords[i]} ELSE @]
        ELSE [s EXCEPT !.active = (IF i > 2 THEN @ \ {s.ttsWords[i - 2]} ELSE @)
                                      \cup {s.ttsWords[i + 1]},
                       !.ttsCurrentWordIndex = i + 1]

----------------------------------------------------------------------------
(* Event handlers of the utterances *)

IsFallback(u) == u.via \in {"direct", "timer", "catch"}

\* utterance.onstart (speakWithFallback assigns it twice; the second stays)
OnStart(s, u) ==
    IF IsFallback(u) THEN [s EXCEPT !.isSpeaking = TRUE] ELSE s

\* An onend of the manager's utterance that keeps the current-utterance record
OnEndKeepsUtterance(s, u) ==
    IF IsFallback(u) THEN clearTTSHighlights([s EXCEPT !.isSpeaking = FALSE])
    ELSE With([s EXCEPT !.mIsSpeaking = FALSE, !.settled = "resolved"], LAMBDA s1 :
              IF u.via = "mgr" THEN PromiseThen(s1) ELSE s1)

\* utterance.onend
OnEnd(s, u) ==
    IF IsFallback(u) THEN clearTTSHighlights([s EXCEPT !.isSpeaking = FALSE])
    ELSE With([s EXCEPT !.mIsSpeaking = FALSE, !.mCurrentUtterance = NoUtterance,
                        !.settled = "resolved"], LAMBDA s1 :
              IF u.via = "mgr" THEN PromiseThen(s1) ELSE s1)

\* An onerror of the fallback utterance that leaves the speaking flag set
OnErrorKeepsFlag(s, u) ==
    IF IsFallback(u) THEN clearTTSHighlights(s)
    ELSE With([s EXCEPT !.mIsSpeaking = FALSE, !.mCurrentUtterance = NoUtterance,
                        !.settled = "rejected"], LAMBDA s1 :
              IF u.via = "mgr" THEN PromiseCatch(s1, u.sid) ELSE s1)

\* utterance.onerror
OnError(s, u) ==
    IF IsFallback(u) THEN clearTTSHighlights([s EXCEPT !.isSpeaking = FALSE])
    ELSE With([s EXCEPT !.mIsSpeaking = FALSE, !.mCurrentUtterance = NoUtterance,
                        !.settled = "rejected"], LAMBDA s1 :
              IF u.via = "mgr" THEN PromiseCatch(s1, u.sid) ELSE s1)

----------------------------------------------------------------------------
(* Construction *)

\* The variables before any script has run
Blank(host, loaded, voices) ==
    [ hostSynth |-> host, bVoices |-> voices, queue |-> << >>, started |-> FALSE,
      late |-> {}, paused |-> FALSE, windowTtsManager |-> loaded,
      mSynthesis |-> FALSE, mAvailableVoices |-> << >>, mCurrentLanguage |-> "en",
      mCurrentVoice |-> NoVoice, mIsSpeaking |-> FALSE,
      mCurrentUtterance |-> NoUtterance, mRate |-> 10, mPitch |-> 10, mVolume |-> 10,
      ttsManager |-> FALSE, speechSynthesis |-> FALSE,
      currentState |-> defaultSettings, isSpeaking |-> FALSE,
      currentUtterance |-> NoUtterance, availableVoices |-> << >>,
      currentTTSLanguage |-> "en",
      ttsWords |-> << >>, ttsCurrentWordIndex |-> 0, ttsHighlightElements |-> << >>,
      dom |-> {}, active |-> {},
      waitTimers |-> {}, hlTimers |-> [sid \in Sids |-> 0],
      hlInterval |-> [sid \in Sids |-> 0], retryTimers |-> 0,
      startupTimers |-> NoStartupTimers, voicesChangedDue |-> FALSE,
      requests |-> << >>, ret |-> "none", cancels |-> 0, settled |-> "none",
      voiceChanges |-> 0, languageChanges |-> 0, pauses |-> 0, resumes |-> 0,
      panel |-> FALSE,
      fbCalls |-> [sid \in Sids |-> 0], primary |-> [sid \in Sids |-> "none"],
      fresh |-> 0, stoppedEarly |-> {} ]

\* new TTSManager(): constructor and init()
MgrInit(s) ==
    IF s.hostSynth THEN MgrLoadVoices([s EXCEPT !.mSynthesis = TRUE]) ELSE s

\* initTTS() once window.ttsManager exists; its 500 ms reload of the voice
\* list is InitTimerSet
initTTS(s) ==
    LET s1 == [s EXCEPT !.ttsManager = TRUE,
                        !.speechSynthesis = s.mSynthesis,
                        !.availableVoices = s.mAvailableVoices]
        s2 == IF Len(s1.mAvailableVoices) = 0 THEN MgrLoadVoices(s1) ELSE s1
    IN  IF s2.currentState.ttsLanguage # ""
        THEN MgrSetLanguage(s2, s2.currentState.ttsLanguage) ELSE s2

\* The timers of the construction: init() of the manager sets its 500 ms
\* reload, initTTS sets one when the manager has no voices
MgrInitTimerSet(s) == IF s.hostSynth THEN [s EXCEPT !.startupTimers.mgr = 1] ELSE s
InitTimerSet(s, empty) == IF empty THEN [s EXCEPT !.startupTimers.init = 1] ELSE s

\* createWidget(), the TTS voice control: loadVoices(), four timers that
\* load again, the options of the control, three timers that update them;
\* the panel is in the document when it returns
createWidget(s) ==
    [getVoiceOptions(loadVoices(s)) EXCEPT !.startupTimers.loads = 4,
                                           !.startupTimers.options = 3,
                                           !.panel = TRUE]

Init ==
    \E host \in BOOLEAN, loaded \in BOOLEAN, voices \in {<< >>, Catalog} :
        /\ (~host => voices = << >>)
        /\ Start(IF loaded THEN initTTS(MgrInit(Blank(host, loaded, voices)))
                 ELSE Blank(host, loaded, voices))

----------------------------------------------------------------------------
(* Actions: one per call of the public interface, host event or timer *)

\* The bounds on the speak() calls of a run
MaySpeak ==
    /\ Len(requests) < MaxSpeaks
    /\ Len(mAvailableVoices) = 0 =>
          Cardinality({i \in 1..Len(requests) : requests[i].bare}) < MaxBareSpeaks

\* AccessibilityPlugin.speak(text) / the read button: speakText(text, element)
SpeakText(text, words) ==
    /\ IsBlank(text) \/ MaySpeak
    /\ (words > 0 => ~IsBlank(text))
    /\ Apply(speakText(Enter(St), text, words, Len(requests) + 1))

\* AccessibilityPlugin.stopSpeaking()
StopSpeaking ==
    LET s == Enter(St)
        early == IF fresh # 0 THEN {fresh} ELSE {}
    IN  Apply([stopSpeaking(s) EXCEPT !.stoppedEarly = @ \cup early, !.fresh = 0])

\* window.ttsManager.speak(text, language) called by the page itself
TTSManagerSpeak(text, language) ==
    /\ ttsManager
    /\ IsBlank(text) \/ MaySpeak
    /\ LET s == Enter(St)
           sid == Len(requests) + 1
           s1 == IF IsBlank(text) \/ ~mSynthesis THEN s
                 ELSE [s EXCEPT !.requests = Append(@, [text |-> text, words |-> 0,
                                                        bare |-> Len(mAvailableVoices) = 0])]
       IN  Apply(MgrSpeak(s1, text, language,
                          [rate |-> 0, pitch |-> 0, volume |-> 0], sid, "api"))

\* The backend starts to play the head of its queue
BackendStart ==
    /\ queue # << >> /\ ~started /\ ~paused
    /\ LET s == [Enter(St) EXCEPT !.started = TRUE]
       IN  Apply(OnStart(s, Head(queue)))

\* The backend finishes the utterance it plays
BackendEnd ==
    /\ queue # << >> /\ started /\ ~paused
    /\ LET u == Head(queue)
           s == [Enter(St) EXCEPT !.queue = Tail(@), !.started = FALSE,
                                         !.primary[u.sid] =
                                             IF u.via = "mgr" THEN "ended" ELSE @]
       IN  Apply(OnEnd(s, u))

\* The backend fails on the head of its queue
BackendError ==
    /\ queue # << >>
    /\ LET u == Head(queue)
           s == [Enter(St) EXCEPT !.queue = Tail(@), !.started = FALSE,
                                           !.primary[u.sid] =
                                               IF u.via = "mgr" THEN "failed"
                                               ELSE IF IsFallback(u) /\ @ = "failed"
                                               THEN "errored" ELSE @]
       IN  Apply(OnError(s, u))

\* The final event of a cancelled utterance arrives: end ...
LateEnd(u) ==
    /\ u \in late
    /\ LET s == [Enter(St) EXCEPT !.late = @ \ {u}]
       IN  Apply(OnEnd(s, u))

\* ... or error ('canceled' / 'interrupted')
LateError(u) ==
    /\ u \in late
    /\ LET s == [Enter(St) EXCEPT !.late = @ \ {u}]
       IN  Apply(OnError(s, u))

\* The host's voice list gets populated and voiceschanged fires
VoicesChanged ==
    /\ hostSynth /\ bVoices = << >>
    /\ LET s == [Enter(St) EXCEPT !.bVoices = Catalog]
       IN  Apply(IF s.speechSynthesis THEN OnVoicesChanged(s) ELSE s)

\* Timers
VoiceWaitFire(sid) ==
    /\ sid \in waitTimers
    /\ Apply(VoiceWaitTimeout(Enter(St), sid))

LoadVoicesRetryFire ==
    /\ retryTimers > 0
    /\ Apply(LoadVoicesRetry(Enter(St)))

Tick(sid) ==
    /\ hlTimers[sid] > 0
    /\ Apply(HighlightTick(Enter(St), sid))

Next ==
    \/ \E text \in Texts, words \in {0, MaxWords} : SpeakText(text, words)
    \/ StopSpeaking
    \/ \E text \in Texts, language \in {"", "en"} : TTSManagerSpeak(text, language)
    \/ BackendStart
    \/ BackendEnd
    \/ BackendError
    \/ \E u \in late : LateEnd(u)
    \/ \E u \in late : LateError(u)
    \/ VoicesChanged
    \/ \E sid \in Sids : VoiceWaitFire(sid)
    \/ LoadVoicesRetryFire
    \/ \E sid \in Sids : Tick(sid)

Spec == Init /\ [][Next]_vars

\* The playback controller on its own: the calls of the plugin's interface,
\* the events of the backend and the timers of a session
NextLive ==
    \/ \E text \in Texts, words \in {0, MaxWords} : SpeakText(text, words)
    \/ StopSpeaking
    \/ BackendStart
    \/ BackendEnd
    \/ BackendError
    \/ \E u \in late : LateEnd(u)
    \/ \E u \in late : LateError(u)
    \/ VoicesChanged
    \/ \E sid \in Sids : VoiceWaitFire(sid)
    \/ \E sid \in Sids : Tick(sid)

\* The event loop runs the callback of a highlight interval that is set
\* (startTTSHighlighting: setInterval), so some pending tick always happens
LiveSpec == Init /\ [][NextLive]_vars /\ WF_vars(\E sid \in Sids : Tick(sid))

\* The host delivers the final event (end, or error 'canceled'/'interrupted')
\* of an utterance that cancel() removed
DeliverySpec ==
    Init /\ [][NextLive]_vars /\ WF_vars(\E u \in late : LateEnd(u) \/ LateError(u))

----------------------------------------------------------------------------
(* Voice resolution on its own: the snapshot of the host's voices and the  *)
(* saved settings are drawn from bounded sets, the actions are the calls   *)
(* that resolve a voice.                                                   *)

Am == Catalog[1]
Da == Catalog[2]
Sam == Catalog[3]
Nb == [name |-> <<"N","b">>, voiceURI |-> <<"u","4">>, lang |-> <<"nb","NO">>]
\* A voice the host reports without a locale tag: its lang is ''
Xo == [name |-> <<"X","o">>, voiceURI |-> <<"u","5">>, lang |-> <<"", "">>]

\* Lists getVoices() may return: the same voices in different orders, with
\* and without a voice of the wanted language, with an untagged voice
Snapshots ==
    { Catalog, <<Sam, Da, Am>>, <<Da, Xo, Sam>>, <<Xo, Am>>, <<Xo>>, <<Am, Xo, Nb>> }

\* Voice names a setting may hold: none, names of voices, a URI, a name of
\* no voice
VoiceNames == { << >>, <<"A","m">>, <<"S","a","m">>, <<"u","2">>, <<"Z">> }

\* The languages tried: one with two of its variants among the voices, one
\* with one, one whose voice has the prefix of its second variant only, and
\* one no voice speaks
LanguageCodes == {"en", "fr", "no", "ko"}

\* loadPreferences(): the saved settings replace the defaults
loadPreferences(s, language, voiceName) ==
    [s EXCEPT !.currentState.ttsLanguage = language,
              !.currentState.ttsVoice = voiceName]

\* initializePlugin(): initTTS(), then loadPreferences()
InitVoice ==
    \E voices \in Snapshots, language \in LanguageCodes, voiceName \in VoiceNames :
        Start(loadPreferences(initTTS(MgrInit(Blank(TRUE, TRUE, voices))),
                              language, voiceName))

\* The TTS Language select of the panel
ChangeLanguage(language) ==
    LET s == [Enter(St) EXCEPT !.currentState.ttsLanguage = language]
    IN  Apply(updateVoiceDropdown(IF s.ttsManager THEN MgrSetLanguage(s, language)
                                  ELSE s))

\* The TTS Voice select of the panel (speech is not enabled: no voice test);
\* its options are the default and the names of voices.  onVoiceChange
\* (initTTS) updates the dropdown when setVoice found the voice.
ChangeVoice(voiceName) ==
    /\ voiceName = << >> \/ \E v \in Range(availableVoices) : v.name = voiceName
    /\ LET s == [Enter(St) EXCEPT !.currentState.ttsVoice = voiceName]
       IN  Apply(IF s.ttsManager /\ voiceName # << >>
                 THEN MgrSetVoice(s, voiceName) ELSE s)

\* window.ttsManager.setLanguage(language) called by the page itself
TTSManagerSetLanguage(language) ==
    /\ ttsManager
    /\ Apply(MgrSetLanguage(Enter(St), language))

\* The 500 ms timer of the manager's init(): loadVoices()
ReloadVoices ==
    /\ mSynthesis
    /\ Apply(MgrLoadVoices(Enter(St)))

NextVoice ==
    \/ \E language \in LanguageCodes : ChangeLanguage(language)
    \/ \E voiceName \in VoiceNames : ChangeVoice(voiceName)
    \/ \E language \in LanguageCodes : TTSManagerSetLanguage(language)
    \/ ReloadVoices
    \/ SpeakText(<<"hello", "world">>, 0)

VoiceSpec == InitVoice /\ [][NextVoice]_vars

----------------------------------------------------------------------------
(* Acquisition of the voice catalog on its own: the construction with its  *)
(* timers, and a host whose list of voices fills and empties.              *)

MaxRetryTimers == 2    \* retries of the plugin's loadVoices pending at once
MaxOptionRetries == 3  \* retries of updateVoiceOptions pending at once

\* The plugin constructed over a host with or without voices, all timers of
\* the construction pending
InitCatalog ==
    \E voices \in {<< >>, Catalog} :
        Start(createWidget(
                InitTimerSet(initTTS(MgrInitTimerSet(MgrInit(Blank(TRUE, TRUE, voices)))),
                             voices = << >>)))

\* A loadVoices() that finds no voice sets one more retry
MayRetry == Len(bVoices) > 0 \/ retryTimers < MaxRetryTimers
\* An updateVoiceOptions() that finds no voice sets one more retry
MayRetryOptions ==
    HasVoiceOptions(St) \/ startupTimers.optionRetries < MaxOptionRetries

MgrTimerFire ==
    /\ startupTimers.mgr > 0
    /\ Apply(MgrInitTimeout(Enter(St)))

InitTimerFire ==
    /\ startupTimers.init > 0
    /\ Apply(InitTimeout(Enter(St)))

WidgetLoadFire ==
    /\ startupTimers.loads > 0 /\ MayRetry
    /\ Apply(WidgetLoad(Enter(St)))

OptionsUpdateFire ==
    /\ startupTimers.options > 0 /\ MayRetryOptions
    /\ Apply(OptionsUpdate(Enter(St)))

OptionRetryFire ==
    /\ startupTimers.optionRetries > 0 /\ MayRetry
    /\ Apply(OptionRetry(Enter(St)))

\* The host's list of voices fills or empties; voiceschanged is due
HostVoicesArrive ==
    /\ bVoices = << >>
    /\ Apply([Enter(St) EXCEPT !.bVoices = Catalog, !.voicesChangedDue = TRUE])

HostVoicesLeave ==
    /\ bVoices # << >>
    /\ Apply([Enter(St) EXCEPT !.bVoices = << >>, !.voicesChangedDue = TRUE])

\* The host dispatches voiceschanged
VoicesChangedDispatch ==
    /\ voicesChangedDue /\ MayRetry /\ MayRetryOptions
    /\ Apply(OnVoicesChanged([Enter(St) EXCEPT !.voicesChangedDue = FALSE]))

NextCatalog ==
    \/ MgrTimerFire
    \/ InitTimerFire
    \/ WidgetLoadFire
    \/ OptionsUpdateFire
    \/ OptionRetryFire
    \/ LoadVoicesRetryFire
    \/ HostVoicesArrive
    \/ HostVoicesLeave
    \/ VoicesChangedDispatch

CatalogSpec == InitCatalog /\ [][NextCatalog]_vars

\* A timer of the catalog fires
TimerFire ==
    \/ MgrTimerFire
    \/ InitTimerFire
    \/ WidgetLoadFire
    \/ OptionsUpdateFire
    \/ OptionRetryFire
    \/ LoadVoicesRetryFire

\* The event loop runs the callbacks of the timers that are set (setTimeout);
\* the host owes no event and no voices
CatalogLiveSpec == InitCatalog /\ [][NextCatalog]_vars /\ WF_vars(TimerFire)

----------------------------------------------------------------------------
(* Language detection on its own: speak(text) without a language, for texts *)
(* drawn from a bounded set.                                                *)

\* Texts with and without characters of the Chinese and the Hangul range,
\* with keywords of one language or of several, in both orders, and blank
DetectTexts ==
    { << >>, <<" ">>, <<" ", " ">>,
      <<"xyz">>, <<"the">>, <<"la">>, <<"og">>, <<"und", "xyz">>,
      <<"el", "la", "the">>, <<"the", "el", "la">>, <<"le", "the">>,
      <<"zh1">>, <<"zh1", "the">>, <<"the", "el", "zh2">>,
      <<"ko1">>, <<"ko1", "el", "la">>, <<"und", "ko2">>,
      <<"zh1", "ko1">>, <<"ko1", "zh1">>, <<"ko2", "the", "zh2">> }

NextDetect ==
    \/ \E text \in DetectTexts : TTSManagerSpeak(text, "")
    \/ StopSpeaking
    \/ BackendStart
    \/ BackendEnd
    \/ VoicesChanged

DetectSpec == Init /\ [][NextDetect]_vars

\* window.ttsManager.pause() and resume(), called by the page: the plugin
\* itself calls neither
TTSManagerPause ==
    /\ ttsManager
    /\ Apply(MgrPause(Enter(St)))

TTSManagerResume ==
    /\ ttsManager
    /\ Apply(MgrResume(Enter(St)))

\* The playback controller on a page that pauses and resumes the manager
NextPause ==
    \/ \E text \in Texts, words \in {0, MaxWords} : SpeakText(text, words)
    \/ StopSpeaking
    \/ TTSManagerPause
    \/ TTSManagerResume
    \/ BackendStart
    \/ BackendEnd
    \/ BackendError
    \/ \E u \in late : LateEnd(u)
    \/ \E u \in late : LateError(u)
    \/ VoicesChanged
    \/ \E sid \in Sids : VoiceWaitFire(sid)
    \/ \E sid \in Sids : Tick(sid)

PauseSpec == Init /\ [][NextPause]_vars

----------------------------------------------------------------------------
(* Rate, pitch and volume of the utterances: settings that come from the    *)
(* page's AccessibilityConfig or from the saved preferences, setters and    *)
(* speak options called by the page.  Values in tenths.                     *)

Rates == {3, 10, 25}
Pitches == {10, 25}
Volumes == {10, 15}
SpeakOptions == { [rate |-> 0, pitch |-> 0, volume |-> 0],
                  [rate |-> 30, pitch |-> 0, volume |-> 0],
                  [rate |-> 5, pitch |-> 20, volume |-> 10] }

\* loadPreferences(): the saved rate, pitch and volume replace the defaults
loadSavedRates(s, rate, pitch, volume) ==
    [s EXCEPT !.currentState.ttsRate = rate,
              !.currentState.ttsPitch = pitch,
              !.currentState.ttsVolume = volume]

\* initializePlugin(): initTTS(), then loadPreferences()
InitRate ==
    \E voices \in {<< >>, Catalog}, rate \in Rates, pitch \in Pitches,
       volume \in Volumes :
        Start(loadSavedRates(initTTS(MgrInit(Blank(TRUE, TRUE, voices))),
                             rate, pitch, volume))

\* window.ttsManager.speak(text, null, options) called by the page itself
TTSManagerSpeakWith(text, options) ==
    /\ ttsManager /\ mSynthesis /\ MaySpeak
    /\ LET s == [Enter(St) EXCEPT !.requests =
                     Append(@, [text |-> text, words |-> 0,
                                bare |-> Len(mAvailableVoices) = 0])]
       IN  Apply(MgrSpeak(s, text, "", options, Len(requests) + 1, "api"))

\* window.ttsManager.setRate / setPitch / setVolume called by the page itself
TTSManagerSetRate(rate) == ttsManager /\ Apply(MgrSetRate(Enter(St), rate))
TTSManagerSetPitch(pitch) == ttsManager /\ Apply(MgrSetPitch(Enter(St), pitch))
TTSManagerSetVolume(volume) == ttsManager /\ Apply(MgrSetVolume(Enter(St), volume))

NextRate ==
    \/ SpeakText(<<"hello", "world">>, 0)
    \/ \E options \in SpeakOptions : TTSManagerSpeakWith(<<"hello", "world">>, options)
    \/ \E rate \in Rates : TTSManagerSetRate(rate)
    \/ \E pitch \in Pitches : TTSManagerSetPitch(pitch)
    \/ \E volume \in Volumes : TTSManagerSetVolume(volume)
    \/ StopSpeaking
    \/ BackendStart
    \/ BackendEnd
    \/ \E u \in late : LateEnd(u)
    \/ VoicesChanged
    \/ \E sid \in Sids : VoiceWaitFire(sid)

RateSpec == InitRate /\ [][NextRate]_vars

----------------------------------------------------------------------------
(* Reset of the settings *)

\* resetSettings(): the new currentState lists sixteen keys and has neither
\* ttsLanguage nor brailleEnabled; a ttsLanguage that is missing reads as
\* undefined, the falsy "" of the model.  Then stopSpeaking(); of the
\* disable... calls and applySettings() none touches speech.
resetSettings(s) ==
    stopSpeaking([s EXCEPT !.currentState =
                      [ttsVoice |-> defaultSettings.ttsVoice,
                       ttsLanguage |-> "",
                       ttsRate |-> defaultSettings.ttsRate,
                       ttsPitch |-> defaultSettings.ttsPitch,
                       ttsVolume |-> defaultSettings.ttsVolume]])

\* initializePlugin() with saved preferences
InitReset ==
    \E voices \in {<< >>, Catalog}, language \in {"en", "fr"},
       rate \in {defaultSettings.ttsRate, 25} :
        Start(loadSavedRates(
                  loadPreferences(initTTS(MgrInit(Blank(TRUE, TRUE, voices))),
                                  language, << >>),
                  rate, defaultSettings.ttsPitch, defaultSettings.ttsVolume))

\* AccessibilityPlugin.reset() / the Reset to Defaults button
ResetSettings == Apply(resetSettings(Enter(St)))

NextReset ==
    \/ \E words \in {0, MaxWords} : SpeakText(<<"hello", "world">>, words)
    \/ ResetSettings
    \/ \E language \in {"en", "fr"} : ChangeLanguage(language)
    \/ StopSpeaking
    \/ BackendStart
    \/ BackendEnd
    \/ \E u \in late : LateEnd(u)
    \/ VoicesChanged
    \/ \E sid \in Sids : VoiceWaitFire(sid)
    \/ \E sid \in Sids : Tick(sid)

ResetSpec == InitReset /\ [][NextReset]_vars

----------------------------------------------------------------------------
(* Highlighting of a source element of several words *)

MaxHighlightWords == 5   \* word spans of the element read aloud

NextHighlight ==
    \/ SpeakText(<<"hello", "world">>, MaxHighlightWords)
    \/ StopSpeaking
    \/ BackendStart
    \/ BackendEnd
    \/ BackendError
    \/ \E u \in late : LateEnd(u)
    \/ \E u \in late : LateError(u)
    \/ \E sid \in Sids : VoiceWaitFire(sid)
    \/ \E sid \in Sids : Tick(sid)

HighlightSpec == Init /\ [][NextHighlight]_vars

----------------------------------------------------------------------------
(* The delay of the highlight interval over the rates of the settings: the  *)
(* configured range 0.5 .. 2.0 and saved values beyond it.                  *)

RateRange == 5..20
SavedRates == RateRange \cup {3, 25, 60, 70, 100}

InitInterval ==
    \E rate \in SavedRates :
        Start(loadSavedRates(initTTS(MgrInit(Blank(TRUE, TRUE, Catalog))),
                             rate, defaultSettings.ttsPitch, defaultSettings.ttsVolume))

NextInterval ==
    \/ SpeakText(<<"hello", "world">>, MaxWords)
    \/ StopSpeaking
    \/ BackendStart
    \/ BackendEnd
    \/ \E u \in late : LateEnd(u)
    \/ \E sid \in Sids : Tick(sid)

IntervalSpec == InitInterval /\ [][NextInterval]_vars

----------------------------------------------------------------------------
(* The language of the manager set by the page: configured codes, a code   *)
(* that is no name of TTS_LANGUAGES at all, and a name it inherits.        *)

SetLanguageCodes == {"en", "fr", "ko", "xx", "constructor"}

NextLanguage ==
    \/ \E language \in SetLanguageCodes : TTSManagerSetLanguage(language)
    \/ \E voiceName \in VoiceNames : ChangeVoice(voiceName)
    \/ ReloadVoices

LanguageSpec == InitVoice /\ [][NextLanguage]_vars

----------------------------------------------------------------------------
(* The start of the plugin: init() waits for the modules, initializePlugin *)
(* runs initTTS, which waits for window.ttsManager; tts.js may run before  *)
(* the plugin, later, or never.                                            *)

maxAttempts == 20

\* initTTS() as a whole: without window.ttsManager it sets a 100 ms timer
\* that calls it again and returns; with it, the branch of the manager.  The
\* branches after it are taken only when window.ttsManager is not set.
initTTSOrWait(s) ==
    IF ~s.windowTtsManager THEN [s EXCEPT !.startupTimers.poll = 1]
    ELSE With(initTTS(s), LAMBDA s1 : InitTimerSet(s1, Len(s.mAvailableVoices) = 0))

\* The callback of that timer
initTTSAgain(s) ==
    With([s EXCEPT !.startupTimers.poll = 0], LAMBDA s1 : initTTSOrWait(s1))

\* initializePlugin(): initTTS(); loadPreferences() with nothing saved;
\* createWidget()
initializePlugin(s) == With(initTTSOrWait(s), LAMBDA s1 : createWidget(s1))

\* The callback of the interval init() sets
checkModules(s) ==
    LET attempts == s.startupTimers.attempts + 1
        ttsReady == s.windowTtsManager \/ s.hostSynth
    IN  IF ttsReady \/ attempts >= maxAttempts
        THEN With([s EXCEPT !.startupTimers.attempts = attempts,
                            !.startupTimers.check = 0],
                  LAMBDA s1 : initializePlugin(s1))
        ELSE [s EXCEPT !.startupTimers.attempts = attempts]

\* tts.js: window.ttsManager = new TTSManager()
ttsScript(s) ==
    With(MgrInit([s EXCEPT !.windowTtsManager = TRUE]), LAMBDA s1 : MgrInitTimerSet(s1))

\* The document is ready and init() has set its interval; tts.js has run or
\* has not
InitStartup ==
    \E host \in BOOLEAN, loaded \in BOOLEAN, voices \in {<< >>, Catalog} :
        /\ (~host => voices = << >>)
        /\ Start([(IF loaded THEN ttsScript(Blank(host, loaded, voices))
                   ELSE Blank(host, loaded, voices))
                  EXCEPT !.startupTimers.check = 1])

CheckModules ==
    /\ startupTimers.check = 1
    /\ Apply(checkModules(Enter(St)))

InitTTSAgain ==
    /\ startupTimers.poll = 1
    /\ Apply(initTTSAgain(Enter(St)))

TtsScriptRuns ==
    /\ ~windowTtsManager
    /\ Apply(ttsScript(Enter(St)))

\* A timer of the start fires
StartupTimerFire ==
    \/ CheckModules
    \/ InitTTSAgain
    \/ MgrTimerFire
    \/ InitTimerFire
    \/ WidgetLoadFire
    \/ OptionsUpdateFire
    \/ OptionRetryFire
    \/ LoadVoicesRetryFire

NextStartup ==
    \/ StartupTimerFire
    \/ TtsScriptRuns

\* The event loop runs the callbacks of the timers that are set; whether and
\* when tts.js runs is up to the page
StartupSpec == InitStartup /\ [][NextStartup]_vars /\ WF_vars(StartupTimerFire)

----------------------------------------------------------------------------
(* Properties *)

BlankTexts == {text \in Texts : IsBlank(text)}
NoOptions == [rate |-> 0, pitch |-> 0, volume |-> 0]
NoTimers == \A sid \in Sids : hlTimers[sid] = 0
LatestSid == Len(requests)

\* What of the state a session consists of
Session(s) == [isSpeaking |-> s.isSpeaking, mIsSpeaking |-> s.mIsSpeaking,
               mCurrentUtterance |-> s.mCurrentUtterance, queue |-> s.queue,
               ttsWords |-> s.ttsWords, ttsCurrentWordIndex |-> s.ttsCurrentWordIndex,
               ttsHighlightElements |-> s.ttsHighlightElements, dom |-> s.dom,
               active |-> s.active]

\* C1: at most one utterance of the program is queued or playing in the
\* backend, whatever speak(), stop() and backend events came before.
C1_AtMostOneUtterance == Len(queue) <= 1

\* C2: the final end or error event of an utterance that stop() or a later
\* speak() cancelled changes nothing of the current session and makes no
\* utterance (the old text is not spoken again).
C2_LateEventIgnored ==
    \A u \in late :
        /\ Session(OnEnd(St, u)) = Session(St)
        /\ Session(OnError(St, u)) = Session(St)

\* C3: stop() during a session cancels the backend that holds the utterance,
\* removes the highlight and leaves the session not speaking.
C3_StopCancelsHolder ==
    (isSpeaking /\ queue # << >>) =>
        LET r == stopSpeaking(St)
        IN  /\ r.cancels > 0 /\ r.queue = << >>
            /\ ~r.isSpeaking
            /\ r.dom = {} /\ r.ttsWords = << >> /\ r.active = {}

\* C4: after stop() right after speak(), and until the next speak(), no
\* utterance is issued for that call and none of its words is marked active
\* (and the stop leaves the speaking flag false).
C4_StoppedStaysSilent ==
    [][\A sid \in stoppedEarly' :
          (sid = LatestSid /\ sid = LatestSid') =>
             /\ \A u \in Range(queue') \ Range(queue) : u.sid # sid
             /\ \A w \in active' \ active : w.sid # sid
             /\ (sid \notin stoppedEarly => ~isSpeaking')]_vars

\* C5: for every speak() call the fallback backend is invoked at most once.
C5_FallbackAtMostOnce == \A sid \in Sids : fbCalls[sid] <= 1

\* C6: when the primary backend completed the utterance of a speak() call
\* normally, the text of that call was never issued to the fallback backend.
C6_NoDuplicateAudio == \A sid \in Sids : primary[sid] = "ended" => fbCalls[sid] = 0

\* C7: when the primary utterance of a speak() call failed and the fallback
\* utterance then fails too, the session has ended in the error state: until
\* the next speak() the speaking flag stays false and no highlight wrapper is
\* in the document.
C7_ErroredIsFinal ==
    [][(LatestSid > 0 /\ LatestSid' = LatestSid /\ primary[LatestSid] = "errored")
         => (~isSpeaking' /\ dom' = {})]_vars

\* C7, the part of it that holds: the error handler of the fallback utterance
\* leaves the speaking flag false and no highlight wrapper in the document,
\* and from then on the highlight timers always run out.
C7_Errored == \E sid \in Sids : primary[sid] = "errored"
C7_ErroredEndsHighlight ==
    /\ [][\A sid \in Sids :
             (primary[sid] # "errored" /\ primary'[sid] = "errored") =>
                /\ ~isSpeaking'
                /\ dom' = {} /\ ttsHighlightElements' = << >> /\ ttsWords' = << >>]_vars
    /\ C7_Errored ~> NoTimers
C7_Witness == C7_Errored /\ ~isSpeaking /\ dom = {} /\ ~NoTimers

\* C8: stop() is idempotent: with no speech in progress it calls no cancel
\* and changes nothing, and a second stop() right after a stop() calls no
\* cancel and changes nothing.
Idle == ~isSpeaking /\ ~mIsSpeaking
C8_StopIdempotent ==
    LET once == stopSpeaking(St)
        twice == stopSpeaking([once EXCEPT !.cancels = 0])
    IN  /\ twice = [once EXCEPT !.cancels = 0]
        /\ Idle => once = St
C8_Witness == stoppedEarly # {} /\ late # {} /\ Idle /\ queue = << >>

\* C9 (as amended): with speech synthesis present, TTSManager.speak with an
\* empty or blank text returns a promise rejected with 'Invalid text', calls
\* neither cancel nor speak and changes nothing of the manager, also while an
\* utterance is in progress.
C9_BlankSpeakRejected ==
    \A text \in BlankTexts, language \in {"", "en"} :
        LET r == MgrSpeak(St, text, language, NoOptions, LatestSid + 1, "api")
        IN  (ttsManager /\ mSynthesis) =>
               /\ r.ret = "rejected: Invalid text"
               /\ r = [St EXCEPT !.ret = r.ret]
C9_Witness == ttsManager /\ mSynthesis /\ mIsSpeaking /\ queue # << >> /\ started

\* C9 as stated: the rejection is 'Invalid text' whenever the text is blank.
C9_AlwaysInvalidText ==
    \A text \in BlankTexts :
        ttsManager =>
            MgrSpeak(St, text, "", NoOptions, LatestSid + 1, "api").ret
                = "rejected: Invalid text"

\* C10: speak() with an empty or blank text reaches no backend: no cancel, no
\* speak, and a session in progress keeps speaking and keeps its highlight.
C10_BlankSpeakTouchesNothing ==
    \A text \in BlankTexts :
        LET r == speakText(St, text, 0, LatestSid + 1)
        IN  r.cancels = 0 /\ Session(r) = Session(St)

\* C11: without speech synthesis, TTSManager.speak returns a promise rejected
\* with 'Speech Synthesis not available' for every text, creates no utterance
\* and changes nothing of the manager; the plugin's speak() ends in the alert
\* of speakWithFallback and queues nothing.
C11_UnavailableRejected ==
    (ttsManager /\ ~mSynthesis) =>
        \A text \in Texts, language \in {"", "en"} :
            LET r == MgrSpeak(St, text, language, NoOptions, LatestSid + 1, "api")
                p == speakText(St, <<"hello", "world">>, 0, LatestSid + 1)
            IN  /\ r.ret = "rejected: Speech Synthesis not available"
                /\ r = [St EXCEPT !.ret = r.ret]
                /\ p.ret = "alert" /\ p.queue = << >> /\ ~p.mIsSpeaking
C11_Witness == ttsManager /\ ~mSynthesis /\ Len(requests) > 0
\* C12: the promise of an accepted TTSManager.speak has exactly one final
\* event to come while it is pending; the end event resolves it, the error
\* event rejects it, either leaves isSpeaking false and currentUtterance null;
\* and whenever cancelled utterances of the manager await their final event,
\* eventually none does (no promise stays pending forever).
IsManagers(u) == u.via \in {"mgr", "api"}
Pending(sid) == {u \in Range(queue) \cup late : IsManagers(u) /\ u.sid = sid}
C12_SettlesOnce ==
    /\ [](\A sid \in Sids :
            /\ Cardinality(Pending(sid)) <= 1
            /\ Cardinality({i \in 1..Len(queue) : IsManagers(queue[i])
                                                   /\ queue[i].sid = sid}) <= 1
            /\ Range(queue) \cap late = {}
            /\ \A u \in Pending(sid) :
                  LET e == OnEnd(St, u)
                      f == OnError(St, u)
                  IN  /\ e.settled = "resolved" /\ f.settled = "rejected"
                      /\ ~e.mIsSpeaking /\ e.mCurrentUtterance = NoUtterance
                      /\ ~f.mIsSpeaking /\ f.mCurrentUtterance = NoUtterance)
    /\ (\E u \in late : IsManagers(u)) ~> ~(\E u \in late : IsManagers(u))
C12_Witness == \E u \in late : IsManagers(u) /\ mIsSpeaking /\ u.sid # mCurrentUtterance.sid

----------------------------------------------------------------------------
(* Voice resolution *)

\* A voice whose locale tag is a variant of the language's profile or has
\* the language prefix of one
LocaleMatches(v, language) ==
    LET langConfig == TTS_LANGUAGES[language]
    IN  \/ \E k \in 1..Len(langConfig.voices) :
              v.lang = langConfig.voices[k] \/ StartsWith(v.lang, langConfig.voices[k][1])
        \/ StartsWith(v.lang, langConfig.code[1])

\* The voice speakText has the manager use under the settings (language,
\* voiceName)
Resolve(s, language, voiceName) ==
    VoiceSetup(loadPreferences(s, language, voiceName)).mCurrentVoice

\* The voice of the utterance speak(text, language) issues
SpokenVoice(s, language) ==
    MgrSpeak(s, <<"hello", "world">>, language, NoOptions, 1, "api").mCurrentUtterance.voice

\* What C13 asks of a voice resolved for the language
C13_Fallback(v, language) ==
    /\ v \in Range(mAvailableVoices)
    /\ IF \E w \in Range(mAvailableVoices) : LocaleMatches(w, language)
       THEN LocaleMatches(v, language)
       ELSE v = mAvailableVoices[1]

VariantsPresent(language) ==
    LET variants == TTS_LANGUAGES[language].voices
    IN  {k \in 1..Len(variants) : \E v \in Range(mAvailableVoices) : v.lang = variants[k]}

\* C14: for a configured language, when some voice of the snapshot has a
\* variant of the profile as its locale tag, the voice selectBestVoice
\* resolves has the locale of the first such variant in the profile's order,
\* whatever the order of the voices and whichever voices share the prefix.
C14_ExactBeforePrefix ==
    mSynthesis =>
        \A language \in DOMAIN TTS_LANGUAGES :
            VariantsPresent(language) # {} =>
                MgrSelectBestVoice(St, language).mCurrentVoice.lang
                    = TTS_LANGUAGES[language].voices[SetMin(VariantsPresent(language))]

\* C15: when a voice of the snapshot has exactly the requested name, setVoice
\* selects that voice, and so does the voice selection of speakWithFallback,
\* even if a voice that matches by substring or URI only stands earlier in
\* the snapshot.
C15_ExactNameFirst ==
    \A voiceName \in VoiceNames \ {<< >>} :
        /\ (\E v \in Range(mAvailableVoices) : v.name = voiceName) =>
               MgrSetVoice(St, voiceName).mCurrentVoice.name = voiceName
        /\ (\E v \in Range(availableVoices) : v.name = voiceName) =>
               FallbackVoice(loadPreferences(St, currentState.ttsLanguage, voiceName),
                             <<"en", "US">>).name = voiceName

\* A manager and plugin just constructed over the snapshot the host reports
Fresh == initTTS(MgrInit(Blank(TRUE, TRUE, bVoices)))

\* A resolution by the manager: setVoice(voiceName) when a name is given,
\* then the voice choice of speak(text, language)
MgrResolve(s, language, voiceName) ==
    SpokenVoice(IF voiceName # << >> THEN MgrSetVoice(s, voiceName) ELSE s, language)

\* C16: a resolution by the manager returns, for the same snapshot, language
\* code and explicit voice name, the voice a manager just constructed
\* returns: it depends on no earlier resolution and on no voice selected
\* before.
C16_Deterministic ==
    mAvailableVoices = bVoices =>
        \A language \in DOMAIN TTS_LANGUAGES, voiceName \in VoiceNames :
            MgrResolve(St, language, voiceName) = MgrResolve(Fresh, language, voiceName)

\* The part of C16 that holds: the voice setup of speakText, which sets
\* language and voice anew on every call, resolves the same voice in every
\* state.
C16_SetupDeterministic ==
    mAvailableVoices = bVoices =>
        \A language \in DOMAIN TTS_LANGUAGES, voiceName \in VoiceNames :
            /\ Resolve(St, language, voiceName) = Resolve(Fresh, language, voiceName)
            /\ SpokenVoice(VoiceSetup(loadPreferences(St, language, voiceName)), language)
                  = Resolve(Fresh, language, voiceName)

\* A voice of the snapshot that has no locale tag
Untagged(v) == v # NoVoice /\ v.lang = <<"", "">>

----------------------------------------------------------------------------
(* Acquisition of the voice catalog *)

\* C18: once the list of voices of the manager, or the copy of the plugin,
\* holds a voice, no step empties it; and while the host reports no voice,
\* a load of the manager or of the plugin leaves both lists and the
\* selected voice as they are.
C18_NeverEmptied ==
    [][ /\ Len(mAvailableVoices) > 0 => Len(mAvailableVoices') > 0
        /\ Len(availableVoices) > 0 => Len(availableVoices') > 0
        /\ bVoices = << >> =>
              /\ MgrLoadVoices(St) = St
              /\ loadVoices(St) = [St EXCEPT !.retryTimers = @ + 1] ]_vars

\* The part of C18 that holds: the list and the selected voice of the
\* manager are never emptied, and a load that finds no voice changes
\* neither list.
C18_ManagerKeeps ==
    [][ /\ Len(mAvailableVoices) > 0 => Len(mAvailableVoices') > 0
        /\ mCurrentVoice # NoVoice => mCurrentVoice' # NoVoice
        /\ bVoices = << >> =>
              /\ MgrLoadVoices(St) = St
              /\ loadVoices(St) = [St EXCEPT !.retryTimers = @ + 1] ]_vars

\* The enumerations of the manager, by trigger, as runs from the state s:
\* the load of init(), the 500 ms timer of init(), the reload of speak()
\* when it has no voices, the host's voiceschanged
Enumerations(s) ==
    { MgrInit(Blank(TRUE, TRUE, s.bVoices)),
      MgrInitTimeout(s),
      MgrOnVoicesChanged(s) }
    \cup IF Len(s.mAvailableVoices) = 0
         THEN {MgrSpeak(s, <<"hello", "world">>, "en", NoOptions, 1, "api")}
         ELSE {}

\* C19: when the host reports voices, every enumeration of the manager,
\* whichever trigger caused it, makes the reported list the snapshot and
\* calls onVoiceChange.
C19_ChangeCallback ==
    (mSynthesis /\ Len(bVoices) > 0) =>
        \A r \in Enumerations(St) :
            r.mAvailableVoices = bVoices /\ r.voiceChanges > 0

\* The part of C19 that holds: every such enumeration replaces the
\* snapshot, and the one the host's voiceschanged causes calls onVoiceChange.
C19_Replaces ==
    (mSynthesis /\ Len(bVoices) > 0) =>
        /\ \A r \in Enumerations(St) : r.mAvailableVoices = bVoices
        /\ MgrOnVoicesChanged(St).voiceChanges = 1

\* No timer that would enumerate the voices again is pending
NoCatalogTimers == startupTimers = NoStartupTimers /\ retryTimers = 0

\* C20: if the host never reports a voice and never signals voiceschanged,
\* then from some point on no timer of the catalog is pending: the
\* re-enumerations come to an end.
C20_RetriesEnd ==
    [](bVoices = << >> /\ ~voicesChangedDue) => <>[]NoCatalogTimers

\* The part of C20 that holds: the callbacks of the timers of the
\* construction and of the retries of the plugin's loadVoices do not set
\* their own timer again; without a voice the retry of updateVoiceOptions
\* does, and a retry of loadVoices with it.
C20_OnlyOptionsRearm ==
    /\ startupTimers.mgr > 0 => MgrInitTimeout(St).startupTimers.mgr = 0
    /\ startupTimers.init > 0 => InitTimeout(St).startupTimers.init = 0
    /\ startupTimers.loads > 0 =>
          WidgetLoad(St).startupTimers.loads = startupTimers.loads - 1
    /\ startupTimers.options > 0 =>
          OptionsUpdate(St).startupTimers.options = startupTimers.options - 1
    /\ retryTimers > 0 => LoadVoicesRetry(St).retryTimers = retryTimers - 1
    /\ (startupTimers.optionRetries > 0 /\ ~HasVoiceOptions(St)) =>
          /\ OptionRetry(St).startupTimers.optionRetries = startupTimers.optionRetries
          /\ OptionRetry(St).retryTimers = retryTimers + 1

----------------------------------------------------------------------------
(* Speaking before the voices are there *)

\* The utterance a handler run handed to the backend last
Issued(s) == s.queue[Len(s.queue)]

\* C21: while the manager holds no voices and the host reports none, speak()
\* of a valid text still hands the backend an utterance, one that carries no
\* voice; once voiceschanged has brought a non-empty list, the speak() that
\* follows hands over an utterance with a voice of that list.
C21_SpeaksWithoutVoice ==
    \A text \in Texts \ BlankTexts :
        /\ (mSynthesis /\ Len(mAvailableVoices) = 0 /\ Len(bVoices) = 0 /\ MaySpeak) =>
              LET r == MgrSpeak(St, text, "", NoOptions, LatestSid + 1, "api")
                  v == MgrSpeak(OnVoicesChanged([St EXCEPT !.bVoices = Catalog]),
                                text, "", NoOptions, LatestSid + 1, "api")
              IN  /\ r.ret = "promise" /\ Len(r.queue) > 0
                  /\ Issued(r).sid = LatestSid + 1 /\ Issued(r).voice = NoVoice
                  /\ v.ret = "promise" /\ Len(v.queue) > 0
                  /\ Issued(v).sid = LatestSid + 1
                  /\ Issued(v).voice \in Range(Catalog)
        /\ (mSynthesis /\ Len(mAvailableVoices) > 0 /\ MaySpeak) =>
              LET v == MgrSpeak(St, text, "", NoOptions, LatestSid + 1, "api")
              IN  /\ v.ret = "promise" /\ Len(v.queue) > 0
                  /\ Issued(v).voice \in Range(mAvailableVoices)
\* A first speak() went out without a voice, the voices came, and the second
\* speak() of the manager carries one
C21_Witness ==
    /\ Len(requests) = 2 /\ requests[1].bare
    /\ \E u \in late : u.sid = 1 /\ u.via = "api" /\ u.voice = NoVoice
    /\ queue # << >> /\ Issued(St).sid = 2 /\ Issued(St).via = "api"
    /\ Issued(St).voice \in Range(Catalog)

----------------------------------------------------------------------------
(* Language detection *)

HasChinese(text) == \E i \in 1..Len(text) : IsChinese(text[i])
HasKorean(text) == \E i \in 1..Len(text) : IsKorean(text[i])

\* The language the manager holds after speak(text) without a language is
\* the one detectLanguage returns for the text of the call
DetectedIsSpoken ==
    (LatestSid > 0 /\ mSynthesis) =>
        mCurrentLanguage = detectLanguage(requests[LatestSid].text)

\* C22: for every text with a character of the Chinese range detectLanguage
\* returns 'zh', and for every other text with a character of the Hangul
\* range it returns 'ko', whatever keywords the text holds besides.
C22_ScriptFirst ==
    /\ DetectedIsSpoken
    /\ \A text \in DetectTexts :
          /\ HasChinese(text) => detectLanguage(text) = "zh"
          /\ (~HasChinese(text) /\ HasKorean(text)) => detectLanguage(text) = "ko"
\* Spoken last: a text with Hangul and Chinese characters and an English
\* keyword, taken for Chinese
C22_Witness ==
    /\ LatestSid > 0 /\ requests[LatestSid].text = <<"ko2", "the", "zh2">>
    /\ mCurrentLanguage = "zh" /\ queue # << >>
    /\ Issued(St).lang = TTS_LANGUAGES["zh"].code

\* The matches of the keyword pattern of a language in the whole text
Count(text, lang) == Cardinality({i \in 1..Len(text) : text[i] \in Keywords[lang]})
\* The languages whose count is strictly greater than every other's
Greatest(text) ==
    {l \in Range(KeywordLangs) :
        \A m \in Range(KeywordLangs) \ {l} : Count(text, l) > Count(text, m)}

\* The language C23 expects for the text
ByCount(text) == IF Greatest(text) = {} THEN "en" ELSE CHOOSE l \in Greatest(text) : TRUE

\* C23: for a text without a character of the Chinese or Hangul range,
\* detectLanguage returns the language whose keywords match most often in
\* the whole text, and 'en' when no language has strictly the most matches;
\* that is the language the manager holds after speak(text) without a
\* language.
C23_GreatestCount ==
    /\ (LatestSid > 0 /\ mSynthesis) =>
          LET text == requests[LatestSid].text
          IN  (~HasChinese(text) /\ ~HasKorean(text)) => mCurrentLanguage = ByCount(text)
    /\ \A text \in DetectTexts :
          (~IsBlank(text) /\ ~HasChinese(text) /\ ~HasKorean(text)) =>
              detectLanguage(text) = ByCount(text)

\* What detectLanguage does instead: the first language, in the order of
\* LANGUAGE_PATTERNS, of which any keyword occurs, and 'en' when none does.
C23_FirstWithMatch ==
    \A text \in DetectTexts :
        (~IsBlank(text) /\ ~HasChinese(text) /\ ~HasKorean(text)) =>
            LET hit == {k \in 1..Len(KeywordLangs) : Count(text, KeywordLangs[k]) > 0}
            IN  detectLanguage(text) =
                    IF hit = {} THEN "en" ELSE KeywordLangs[SetMin(hit)]

\* C24: detectLanguage returns 'en' for an empty text, for a text of white
\* space only and for a text without a character of the two script ranges
\* and without any keyword; for every text it returns a configured language
\* code, and speak(text) without a language never fails on the detected
\* language.
C24_TotalDefault ==
    /\ DetectedIsSpoken
    /\ mCurrentLanguage \in DOMAIN TTS_LANGUAGES
    /\ \A text \in DetectTexts :
          /\ detectLanguage(text) \in DOMAIN TTS_LANGUAGES
          /\ IsBlank(text) => detectLanguage(text) = "en"
          /\ (~HasChinese(text) /\ ~HasKorean(text)
                /\ \A l \in Range(KeywordLangs) : Count(text, l) = 0) =>
                 detectLanguage(text) = "en"
          /\ (mSynthesis /\ MaySpeak) =>
                 MgrSpeak(St, text, "", NoOptions, LatestSid + 1, "api").ret # "throw"
\* Spoken last: a text without keyword or script character, taken for
\* English after a text taken for Korean
C24_Witness ==
    /\ LatestSid = 2 /\ requests[2].text = <<"xyz">> /\ HasKorean(requests[1].text)
    /\ mCurrentLanguage = "en" /\ queue # << >>
    /\ Issued(St).lang = TTS_LANGUAGES["en"].code

\* The speak() call whose words the page shows has its interval running and
\* the backend is paused
PausedSession(sid) ==
    /\ paused /\ mIsSpeaking /\ isSpeaking
    /\ ttsHighlightElements = <<sid>> /\ hlTimers[sid] > 0

\* C25: while a session is paused, no run of the highlight interval moves
\* the cursor or changes which words are marked active, and resume() leaves
\* the cursor where it was.
C25_FrozenWhilePaused ==
    \A sid \in Sids :
        PausedSession(sid) =>
            /\ HighlightTick(St, sid).ttsCurrentWordIndex = ttsCurrentWordIndex
            /\ HighlightTick(St, sid).active = active
            /\ MgrResume(St).ttsCurrentWordIndex = ttsCurrentWordIndex
\* What the code does keep: pause() and resume() touch neither the cursor
\* nor the marks nor the interval
C25_PauseLeavesHighlight ==
    \A h \in {MgrPause(St), MgrResume(St)} :
        /\ h.ttsCurrentWordIndex = ttsCurrentWordIndex /\ h.active = active
        /\ h.hlTimers = hlTimers /\ h.ttsWords = ttsWords
\* ... and the interval runs on while the backend is paused
C25_PausedTick == \E sid \in Sids : PausedSession(sid) /\ ttsCurrentWordIndex > 0

\* C26: pause() reaches the backend only when a session is speaking and
\* resume() only when a session is paused; pause() with no utterance in
\* progress and resume() of a session that is not paused call nothing of the
\* backend and change nothing.
C26_PauseResumeGuarded ==
    /\ MgrPause(St).pauses > 0 => (mIsSpeaking /\ ~paused)
    /\ MgrResume(St).resumes > 0 => (mIsSpeaking /\ paused)
    /\ ~mIsSpeaking => MgrPause(St) = St
    /\ ~paused => MgrResume(St) = St
\* What the code does: both are forwarded exactly when the manager has its
\* speaking flag set, and change nothing but the paused state of the backend
C26_GuardedBySpeaking ==
    /\ MgrPause(St).pauses = (IF mSynthesis /\ mIsSpeaking THEN 1 ELSE 0)
    /\ MgrResume(St).resumes = (IF mSynthesis /\ mIsSpeaking THEN 1 ELSE 0)
    /\ [MgrPause(St) EXCEPT !.paused = paused, !.pauses = 0] = St
    /\ [MgrResume(St) EXCEPT !.paused = paused, !.resumes = 0] = St

\* Rate within [0.5, 2.0], pitch within [0, 2.0], volume within [0, 1.0]
InRange(u) == u.rate \in 5..20 /\ u.pitch \in 0..20 /\ u.volume \in 0..10

\* C27: every utterance given to the backend, by the manager or by the
\* direct fallback, has rate, pitch and volume within their ranges, whatever
\* the settings, the setters and the speak options supplied.
C27_UtteranceInRange ==
    \A u \in Range(queue) \cup late : InRange(u)
\* What the code does keep: the fields of the manager are within the ranges
\* after any setter, and an utterance of the manager carries the option of
\* the call as given, or the field of the manager where the option is falsy
C27_SettersClamp ==
    /\ mRate \in 5..20 /\ mPitch \in 0..20 /\ mVolume \in 0..10
    /\ \A r \in Rates \cup Pitches \cup Volumes :
          /\ MgrSetRate(St, r).mRate \in 5..20
          /\ MgrSetPitch(St, r).mPitch \in 0..20
          /\ MgrSetVolume(St, r).mVolume \in 0..10
    /\ \A u \in Range(queue) \cup late :
          u.via = "mgr" =>
              /\ u.rate = currentState.ttsRate
              /\ u.pitch = currentState.ttsPitch
              /\ u.volume = currentState.ttsVolume

\* C28: after reset() every setting has its default value, ttsLanguage
\* among them, whatever the settings were, and speech in progress is stopped.
C28_ResetRestoresDefaults ==
    LET r == resetSettings(St)
    IN  /\ \A key \in DOMAIN defaultSettings :
              r.currentState[key] = defaultSettings[key]
        /\ r.queue = << >> /\ ~r.isSpeaking /\ ~r.mIsSpeaking
\* What the code does: the keys it lists get their defaults, ttsLanguage is
\* left out
C28_ListedKeysReset ==
    LET r == resetSettings(St)
    IN  /\ \A key \in DOMAIN defaultSettings \ {"ttsLanguage"} :
              r.currentState[key] = defaultSettings[key]
        /\ r.currentState.ttsLanguage = ""
        /\ ~r.isSpeaking

\* The highlight intervals that are set
RECURSIVE LiveTimers(_)
LiveTimers(n) == IF n = 0 THEN 0 ELSE hlTimers[n] + LiveTimers(n - 1)

\* C29: at most one highlight interval is set at any time, it belongs to the
\* latest speak() call while that call's session is on, and the interval of
\* an earlier call neither moves the cursor nor marks words of a later one.
C29_OneTimerPerSession ==
    /\ LiveTimers(MaxSpeaks) <= 1
    /\ \A sid \in Sids :
          hlTimers[sid] > 0 =>
              /\ sid = LatestSid /\ isSpeaking
              /\ \A later \in Sids :
                    (later > sid /\ ttsHighlightElements = <<later>>) =>
                        /\ HighlightTick(St, sid).ttsCurrentWordIndex = ttsCurrentWordIndex
                        /\ HighlightTick(St, sid).active = active
\* What the code does keep: an interval is cleared by its own callback only,
\* at the first run that finds the plugin not speaking or the cursor past
\* the words
C29_ClearedByOwnTick ==
    \A sid \in Sids :
        hlTimers[sid] > 0 =>
            /\ stopSpeaking(St).hlTimers = hlTimers
            /\ clearTTSHighlights(St).hlTimers = hlTimers
            /\ (~isSpeaking \/ ttsCurrentWordIndex >= Len(ttsWords)) =>
                   HighlightTick(St, sid).hlTimers[sid] = hlTimers[sid] - 1
\* The interval of the first call marks a word of the second
C29_StaleTimerActs ==
    /\ hlTimers[1] > 0 /\ ttsHighlightElements = <<2>> /\ isSpeaking
    /\ ttsCurrentWordIndex < Len(ttsWords)

\* The words at the positions i - 2 .. i of the list (positions from 1)
Window(i) == {ttsWords[k] : k \in Max2(1, i - 2)..i}

\* C30: a run of the highlight interval while the plugin speaks and words
\* are left moves the cursor on by exactly one, marks the word the cursor
\* was at, takes the mark off the word three before that one, and leaves at
\* most three words marked: the last ones up to the cursor, without a gap.
C30_TickWindow ==
    LET i == ttsCurrentWordIndex
    IN  \A sid \in Sids :
            (hlTimers[sid] > 0 /\ isSpeaking /\ i < Len(ttsWords)) =>
                LET t == HighlightTick(St, sid)
                IN  /\ t.ttsCurrentWordIndex = i + 1
                    /\ ttsWords[i + 1] \in t.active
                    /\ i > 2 => ttsWords[i - 2] \notin t.active
                    /\ Cardinality(t.active) <= 3
                    /\ t.active = Window(i + 1)
                    /\ t.ttsWords = ttsWords /\ t.hlTimers = hlTimers
\* Four runs have moved the cursor to the fifth word: the first word has
\* lost its mark, the three after it carry theirs, and the next run is due
C30_Witness ==
    /\ isSpeaking /\ Len(ttsWords) = MaxHighlightWords /\ ttsCurrentWordIndex = 4
    /\ active = {ttsWords[2], ttsWords[3], ttsWords[4]}
    /\ \E sid \in Sids : hlTimers[sid] > 0

\* Nothing of a highlight is left: no word marked, no list of words, the
\* cursor at the start
NoHighlight(s) ==
    s.active = {} /\ s.ttsWords = << >> /\ s.ttsCurrentWordIndex = 0

\* C31: once the session has ended, failed or been stopped the plugin is
\* not speaking, and then no word is marked, the list of words is gone and
\* no run of an interval moves the cursor; stopSpeaking() leaves nothing of
\* the highlight; a run that finds the cursor at the end of the words clears
\* its interval and leaves the cursor where it is.
C31_HighlightEnds ==
    /\ ~isSpeaking => NoHighlight(St)
    /\ NoHighlight(stopSpeaking(St))
    /\ \A sid \in Sids :
          (hlTimers[sid] > 0
             /\ (~isSpeaking \/ ttsCurrentWordIndex >= Len(ttsWords))) =>
              LET t == HighlightTick(St, sid)
              IN  /\ t.hlTimers[sid] = hlTimers[sid] - 1
                  /\ t.ttsCurrentWordIndex = ttsCurrentWordIndex
                  /\ t.ttsWords = ttsWords
\* The utterance of a call that had words marked has ended: nothing is left
\* of the highlight and the interval is still to run for the last time
C31_Witness ==
    /\ LatestSid = 1 /\ requests[1].words = MaxHighlightWords
    /\ primary[1] = "ended" /\ ~isSpeaking /\ queue = << >>
    /\ hlTimers[1] > 0 /\ NoHighlight(St)

\* The highlight in s is that of the speak() call sid and of no other: its
\* wrapper or none, marks on its words only, its words or none, the cursor
\* at the start
OnlyOf(s, sid) ==
    /\ s.dom \subseteq {sid}
    /\ \A w \in s.active : w.sid = sid
    /\ s.ttsHighlightElements \in {<< >>, <<sid>>}
    /\ s.ttsWords \in {<< >>, WordsOf(s, sid)}
    /\ s.ttsCurrentWordIndex = 0

\* C32: when speak() starts a session, no wrapper and no marked word of an
\* earlier session is left in the document, and the list of words and the
\* cursor are those of the new session.
C32_StartClearsRemnants ==
    /\ fresh # 0 => OnlyOf(St, fresh)
    /\ LatestSid < MaxSpeaks =>
          \A words \in {0, MaxHighlightWords} :
              OnlyOf(speakText(Enter(St), <<"hello", "world">>, words, LatestSid + 1),
                     LatestSid + 1)
\* The second call has just started and shows its own words only, while the
\* interval of the first call, which had words too, is still set
C32_Witness ==
    /\ fresh = 2 /\ requests[1].words = MaxHighlightWords /\ hlTimers[1] > 0
    /\ dom = {2} /\ ttsWords = WordsOf(St, 2) /\ active = {}

\* max(50 ms, 60000 / (180 * rate) ms) in microseconds, rate in tenths
ClaimedInterval(rate) == Max2(50000, 600000000 \div (180 * rate))

\* C33: the delay of the highlight interval is max(50 ms, 60000 / (180 *
\* rate) ms) for every rate of the configured range: the interval a speak()
\* call set has this delay for the rate of the settings, it is never below
\* 50 ms, and a greater rate never gives a longer delay.
C33_IntervalFormula ==
    /\ \A sid \in Sids :
          hlInterval[sid] # 0 =>
              /\ hlInterval[sid] = ClaimedInterval(currentState.ttsRate)
              /\ hlInterval[sid] >= 50000
    /\ \A rate \in RateRange :
          /\ HighlightInterval(rate) = ClaimedInterval(rate)
          /\ HighlightInterval(rate) >= 50000
    /\ \A r1, r2 \in SavedRates :
          r1 <= r2 => HighlightInterval(r1) >= HighlightInterval(r2)
\* An interval set at the rate 2.0 is live and runs every 166 ms
C33_Witness ==
    currentState.ttsRate = 20 /\ hlTimers[1] > 0 /\ hlInterval[1] = 166666

\* A run of the interval of sid that clears the interval is due
Terminating(sid) ==
    hlTimers[sid] > 0 /\ (~isSpeaking \/ ttsCurrentWordIndex >= Len(ttsWords))

\* C34: when a run of a highlight interval clears the interval, because the
\* cursor is at the end of the words or the plugin is not speaking, no word
\* is marked active after it.
C34_NoMarkAfterTermination ==
    \A sid \in Sids :
        Terminating(sid) => HighlightTick(St, sid).active = {}
\* What the code does: that run takes the mark off the word before the
\* cursor and off no other
C34_LastWordOnly ==
    \A sid \in Sids :
        Terminating(sid) =>
            LET i == ttsCurrentWordIndex
            IN  HighlightTick(St, sid).active =
                    active \ (IF i > 0 /\ i <= Len(ttsWords) THEN {ttsWords[i]} ELSE {})
\* The cursor is at the end of five words and the two words before the last
\* keep their marks when the last run of the interval is over
C34_MarksLeft ==
    /\ isSpeaking /\ Len(ttsWords) = MaxHighlightWords
    /\ ttsCurrentWordIndex = MaxHighlightWords
    /\ \A sid \in Sids : hlTimers[sid] = 0
    /\ active = {ttsWords[3], ttsWords[4]}

\* C35: the manager's isSpeaking is true exactly when its currentUtterance
\* is not null, in every state that speak(), stop(), pause(), resume() and
\* the end and error events of the backend lead to.
C35_SpeakingIffUtterance ==
    /\ mIsSpeaking <=> mCurrentUtterance # NoUtterance
    /\ \A h \in {MgrStop(St), MgrPause(St), MgrResume(St)} :
          h.mIsSpeaking <=> h.mCurrentUtterance # NoUtterance
\* The manager holds the utterance of the second call, paused, while the
\* final event of the cancelled first one is still to come
C35_Witness ==
    /\ paused /\ mIsSpeaking /\ mCurrentUtterance.sid = 2
    /\ \E u \in late : u.sid = 1 /\ u.via = "mgr"

\* The positions of ttsWords (from 1) that a run of the interval callback
\* reads in s: ttsWords[index - 1] in the branch that clears the interval,
\* ttsWords[index - 3] and ttsWords[index] in the other
TickReads(s) ==
    LET i == s.ttsCurrentWordIndex
        n == Len(s.ttsWords)
    IN  IF ~s.isSpeaking \/ i >= n
        THEN (IF i > 0 /\ i <= n THEN {i} ELSE {})
        ELSE (IF i > 2 THEN {i - 2} ELSE {}) \cup (IF i < n THEN {i + 1} ELSE {})

\* C36: the cursor is never below 0 nor beyond the length of ttsWords, and
\* no run of an interval, one set by an earlier call included, reads a
\* position outside the list or leaves the cursor outside these bounds.
C36_CursorInBounds ==
    /\ ttsCurrentWordIndex \in 0..Len(ttsWords)
    /\ \A sid \in Sids :
          hlTimers[sid] > 0 =>
              /\ TickReads(St) \subseteq DOMAIN ttsWords
              /\ HighlightTick(St, sid).ttsCurrentWordIndex
                     \in 0..Len(HighlightTick(St, sid).ttsWords)
\* The cursor is at the end of the words of the second call while the
\* interval of the first call is still set
C36_Witness ==
    /\ hlTimers[1] > 0 /\ ttsHighlightElements = <<2>> /\ isSpeaking
    /\ Len(ttsWords) = MaxHighlightWords /\ ttsCurrentWordIndex = MaxHighlightWords

\* setLanguage(language) returns false and changes neither the language nor
\* the voice nor calls onLanguageChange
Refused(language) ==
    LET t == MgrSetLanguage(St, language)
    IN  /\ t.ret = "false" /\ t.languageChanges = 0
        /\ t.mCurrentLanguage = mCurrentLanguage /\ t.mCurrentVoice = mCurrentVoice
\* setLanguage(language) returns true, the language is the current one and
\* onLanguageChange was called once
Accepted(language) ==
    LET t == MgrSetLanguage(St, language)
    IN  t.ret = "true" /\ t.mCurrentLanguage = language /\ t.languageChanges = 1

\* C37: setLanguage with a code that is not configured returns false, leaves
\* currentLanguage and currentVoice as they are and does not call
\* onLanguageChange; with a configured code it returns true, makes the code
\* the current language and calls onLanguageChange exactly once.
C37_SetLanguage ==
    \A language \in SetLanguageCodes :
        IF language \in DOMAIN TTS_LANGUAGES THEN Accepted(language)
        ELSE Refused(language)
\* What the code does: the same for every code but the names TTS_LANGUAGES
\* inherits, which it takes for configured; with them the language changes,
\* and setLanguage returns true when no voice is loaded and throws otherwise
C37_OwnAndUnknownCodes ==
    /\ \A language \in SetLanguageCodes \ InheritedKeys :
          IF language \in DOMAIN TTS_LANGUAGES THEN Accepted(language)
          ELSE Refused(language)
    /\ \A language \in InheritedKeys :
          LET t == MgrSetLanguage(St, language)
          IN  /\ t.mCurrentLanguage = language
              /\ t.ret = (IF Len(mAvailableVoices) = 0 THEN "true" ELSE "throw")
\* The manager has taken an inherited name for its language
C37_InheritedCurrent == mCurrentLanguage \in InheritedKeys

\* The manager after setVoice(voiceName) found a voice of that name
Chosen(voiceName) == MgrSetVoice(St, voiceName)

\* C38: a voice chosen with setVoice stays the current voice when the
\* catalog is enumerated again (the 500 ms timer, the voiceschanged event)
\* while the language stays the same, and the next utterance carries it.
C38_ChosenVoiceKept ==
    \A voiceName \in VoiceNames \ {<< >>} :
        MgrFindVoice(St, voiceName) # NoVoice =>
            LET voice == Chosen(voiceName).mCurrentVoice
            IN  /\ MgrLoadVoices(Chosen(voiceName)).mCurrentVoice = voice
                /\ MgrOnVoicesChanged(Chosen(voiceName)).mCurrentVoice = voice
                /\ SpokenVoice(MgrLoadVoices(Chosen(voiceName)), mCurrentLanguage) = voice
\* What the code does: without another enumeration the next utterance in
\* the same language carries the chosen voice; an enumeration that finds
\* voices selects the voice of the current language again, whatever voice
\* was chosen.
C38_KeptUntilReload ==
    \A voiceName \in VoiceNames \ {<< >>} :
        MgrFindVoice(St, voiceName) # NoVoice =>
            /\ Chosen(voiceName).mCurrentVoice = MgrFindVoice(St, voiceName)
            /\ SpokenVoice(Chosen(voiceName), mCurrentLanguage) = MgrFindVoice(St, voiceName)
            /\ MgrLoadVoices(Chosen(voiceName)).mCurrentVoice
                  = MgrLoadVoices(St).mCurrentVoice
            /\ SpokenVoice(MgrLoadVoices(Chosen(voiceName)), mCurrentLanguage)
                  = MgrLoadVoices(St).mCurrentVoice

\* The plugin has stopped waiting and holds the synthesis of the host
DirectBound ==
    /\ startupTimers.check = 0 /\ startupTimers.poll = 0
    /\ speechSynthesis

\* C39: when window.ttsManager never appears and the host has speech
\* synthesis, initTTS eventually stops polling and binds the synthesis of
\* the host, so that a later speak() is not answered with the alert.
C39_StartupTerminates ==
    (hostSynth /\ [](~windowTtsManager)) =>
        <>(DirectBound /\ speakText(St, <<"hello", "world">>, 0, Len(requests) + 1).ret # "alert")
\* What the code does: as long as window.ttsManager is missing, the plugin,
\* once initialized, has the timer of initTTS pending, holds no synthesis,
\* and answers speak() with the alert
C39_WaitsWhileMissing ==
    (startupTimers.check = 0 /\ ~windowTtsManager) =>
        /\ startupTimers.poll = 1
        /\ ~speechSynthesis /\ ~ttsManager
        /\ speakText(St, <<"hello", "world">>, 0, Len(requests) + 1).ret = "alert"
\* The plugin never holds a synthesis without the manager
C39_NoDirectBackend == speechSynthesis => ttsManager
\* The plugin is initialized over a host with synthesis and waits for the
\* manager
C39_Waiting == hostSynth /\ startupTimers.check = 0 /\ startupTimers.poll = 1
====
